---------------------------- MODULE Spec2Model ----------------------------
(***************************************************************************)
(* x2node-patches: JSON Patch (RFC 6902) over schema-described records.    *)
(*                                                                         *)
(* The model covers the record patch builder (build, parsePatchOperation   *)
(* and its validators), the patch operations and RecordPatch.apply, and    *)
(* the record differ (fromDiff).  Record element pointers come from the    *)
(* x2node-pointers package, whose code is not part of the sources; they    *)
(* are modelled from their documented behaviour.                           *)
(***************************************************************************)
EXTENDS Integers, Sequences, FiniteSets, TLC

VARIABLES
    phase,      \* "init", "merge", "spec", "built", "applied", "failed"
    recOld,     \* the record the caller starts from
    recNew,     \* fromDiff's new record (recOld when no diff is taken)
    patchSpec,  \* the patch specification: a sequence of operation definitions
    patch,      \* what build returned: [err, reason, ops]
    rec,        \* the record being patched (mutated in place by apply)
    recBefore,  \* rec as it was when the last apply call started
    handlers,   \* the handlers argument of the last apply call
    result,     \* how the last apply call ended
    events,     \* handler calls made by the last apply call, in order
    executed,   \* ids of the operations the last apply call entered, in order
    round,      \* number of apply calls made so far
    prev,       \* the apply call before the last: [result, events, handlers]
    diffErr,    \* the error fromDiff threw ("" when none)
    failedTest, \* id of the test operation the last apply call found unequal
    mergePatch, \* the merge patch handed to buildMerge (undefined when none)
    heap,       \* the operation values held by reference: [vals, alias] now,
                \* before as they were when the last apply call started
    buildArgs   \* the arguments of build: [recordTypeName, patch]

vars == <<phase, recOld, recNew, patchSpec, patch, rec, recBefore, handlers,
          result, events, executed, round, prev, diffErr, failedTest, mergePatch,
          heap, buildArgs>>

(***************************************************************************)
(* JavaScript values.  Every value is a record [t, v]; objects and maps    *)
(* are functions from property names (keys) to values, arrays are          *)
(* sequences.  A property that is not in an object's domain reads as       *)
(* undefined.                                                              *)
(***************************************************************************)
NULL == [t |-> "null", v |-> "null"]
UNDEF == [t |-> "undef", v |-> "undef"]
Str(s) == [t |-> "str", v |-> s]
Num(n) == [t |-> "num", v |-> n]
Arr(s) == [t |-> "arr", v |-> s]
Obj(f) == [t |-> "obj", v |-> f]

IsNullish(val) == val.t \in {"null", "undef"}

\* if (val)
Truthy(val) == ~IsNullish(val) /\ val # Num(0) /\ val # Str("")

\* typeof val === 'object' && val !== null (an array is an object too)
IsObjectLike(val) == val.t \in {"arr", "obj"}

\* Object.keys(obj).length
NKeys(val) == Cardinality(DOMAIN val.v)

\* obj[name]
Prop(val, name) == IF name \in DOMAIN val.v THEN val.v[name] ELSE UNDEF

\* the object with obj[name] = x
WithProp(val, name, x) ==
    Obj([k \in (DOMAIN val.v) \cup {name} |-> IF k = name THEN x ELSE val.v[k]])

\* delete obj[name]
WithoutProp(val, name) == Obj([k \in (DOMAIN val.v) \ {name} |-> val.v[k]])

\* arr.splice(i, 0, x), i counted from 0
InsertAt(s, i, x) == SubSeq(s, 1, i) \o <<x>> \o SubSeq(s, i + 1, Len(s))

\* arr.splice(i, 1), i counted from 0
RemoveAt(s, i) == SubSeq(s, 1, i) \o SubSeq(s, i + 2, Len(s))

(***************************************************************************)
(* The record types library.  Record1 is the record type of the test       *)
(* suite; optionalObjProp adds an optional nested object that holds an     *)
(* optional nested object (inner), which holds another one (deep);         *)
(* noIdArrayProp adds an optional array of nested objects that have no id  *)
(* property; numberArrayProp adds an optional array of numbers; the        *)
(* elements of nestedObjArrayProp have two optional properties more, prop2 *)
(* and prop3.                                                              *)
(* x2node-records defaults: a property is required unless declared         *)
(* optional, and modifiable unless it is an id.                            *)
(***************************************************************************)
PropDesc(name, struct, svt, optional, isId, nested) ==
    [name |-> name, struct |-> struct, scalarValueType |-> svt,
     optional |-> optional, modifiable |-> ~isId, id |-> isId,
     nested |-> nested]

Container(names, props, idPropertyName, nestedPath) ==
    [allPropertyNames |-> names, props |-> props,
     idPropertyName |-> idPropertyName, nestedPath |-> nestedPath]

Prop1Only(path) ==
    Container(<<"prop1">>,
              "prop1" :> PropDesc("prop1", "scalar", "string", FALSE, FALSE, "none"),
              "", path)

Containers ==
    "Record1" :> Container(
        <<"id", "simpleProp", "optionalSimpleProp", "simpleArrayProp",
          "simpleMapProp", "nestedObjProp", "nestedObjArrayProp",
          "nestedObjMapProp", "optionalObjProp", "noIdArrayProp",
          "numberArrayProp">>,
        "id" :> PropDesc("id", "scalar", "number", FALSE, TRUE, "none")
        @@ "simpleProp" :> PropDesc("simpleProp", "scalar", "string", FALSE, FALSE, "none")
        @@ "optionalSimpleProp" :> PropDesc("optionalSimpleProp", "scalar", "string", TRUE, FALSE, "none")
        @@ "simpleArrayProp" :> PropDesc("simpleArrayProp", "array", "string", FALSE, FALSE, "none")
        @@ "simpleMapProp" :> PropDesc("simpleMapProp", "map", "string", FALSE, FALSE, "none")
        @@ "nestedObjProp" :> PropDesc("nestedObjProp", "scalar", "object", FALSE, FALSE, "nestedObjProp")
        @@ "nestedObjArrayProp" :> PropDesc("nestedObjArrayProp", "array", "object", FALSE, FALSE, "nestedObjArrayProp")
        @@ "nestedObjMapProp" :> PropDesc("nestedObjMapProp", "map", "object", FALSE, FALSE, "nestedObjMapProp")
        @@ "optionalObjProp" :> PropDesc("optionalObjProp", "scalar", "object", TRUE, FALSE, "optionalObjProp")
        @@ "noIdArrayProp" :> PropDesc("noIdArrayProp", "array", "object", TRUE, FALSE, "noIdArrayProp")
        @@ "numberArrayProp" :> PropDesc("numberArrayProp", "array", "number", TRUE, FALSE, "none"),
        "id", <<>>)
    @@ "nestedObjProp" :> Prop1Only(<<"nestedObjProp">>)
    @@ "nestedObjArrayProp" :> Container(
        <<"id", "prop1", "prop2", "prop3">>,
        "id" :> PropDesc("id", "scalar", "number", FALSE, TRUE, "none")
        @@ "prop1" :> PropDesc("prop1", "scalar", "string", FALSE, FALSE, "none")
        @@ "prop2" :> PropDesc("prop2", "scalar", "string", TRUE, FALSE, "none")
        @@ "prop3" :> PropDesc("prop3", "scalar", "string", TRUE, FALSE, "none"),
        "id", <<"nestedObjArrayProp">>)
    @@ "nestedObjMapProp" :> Prop1Only(<<"nestedObjMapProp">>)
    @@ "optionalObjProp" :> Container(
        <<"prop1", "inner">>,
        "prop1" :> PropDesc("prop1", "scalar", "string", FALSE, FALSE, "none")
        @@ "inner" :> PropDesc("inner", "scalar", "object", TRUE, FALSE, "inner"),
        "", <<"optionalObjProp">>)
    @@ "inner" :> Container(
        <<"prop1", "deep">>,
        "prop1" :> PropDesc("prop1", "scalar", "string", FALSE, FALSE, "none")
        @@ "deep" :> PropDesc("deep", "scalar", "object", TRUE, FALSE, "deep"),
        "", <<"optionalObjProp", "inner">>)
    @@ "deep" :> Prop1Only(<<"optionalObjProp", "inner", "deep">>)
    @@ "noIdArrayProp" :> Prop1Only(<<"noIdArrayProp">>)

RecordTypeName == "Record1"

\* recordTypes.hasRecordType(name)
hasRecordType(name) == name = RecordTypeName

isArray(propDesc) == propDesc.struct = "array"
isMap(propDesc) == propDesc.struct = "map"
isScalar(propDesc) == propDesc.struct = "scalar"

(***************************************************************************)
(* Record element pointers (x2node-pointers).  A pointer string is the     *)
(* sequence of its reference tokens: "/simpleArrayProp/0" is               *)
(* <<"simpleArrayProp", "0">>, the root pointer "" is <<>>.                *)
(***************************************************************************)
Digits == <<"0", "1", "2", "3", "4", "5", "6", "7", "8", "9">>

\* the decimal token of an array index, as `${t}` formats it
IndexToken(i) == Digits[i + 1]

IsIndexToken(tok) == \E i \in 1..Len(Digits) : Digits[i] = tok

\* the array index a token denotes
TokenIndex(tok) == (CHOOSE i \in 1..Len(Digits) : Digits[i] = tok) - 1

Step(k, n, i) == [k |-> k, n |-> n, i |-> i]

\* the map key a reference token denotes (RFC 6901: "~1" is '/', "~0" is '~')
Unescape(tok) ==
    CASE tok = "a~1b" -> "a/b"
      [] tok = "m~0n" -> "m~n"
      [] OTHER -> tok

NoPropDesc == PropDesc("", "scalar", "none", FALSE, FALSE, "none")

RootPointer ==
    [err |-> "", tokens |-> <<>>, propDesc |-> NoPropDesc,
     collectionElement |-> FALSE, propPath |-> <<>>, steps |-> <<>>,
     expect |-> "prop", container |-> RecordTypeName]

BadPointer(toks) == [RootPointer EXCEPT !.err = "SyntaxError", !.tokens = toks]

RECURSIVE ParseTokens(_, _, _, _)
ParseTokens(toks, i, ptr, noDash) ==
    LET property(tok, c, bad) ==
            LET enter(d) ==
                    ParseTokens(toks, i + 1,
                        [ptr EXCEPT
                           !.propDesc = d,
                           !.collectionElement = FALSE,
                           !.propPath = c.nestedPath \o <<tok>>,
                           !.steps = Append(ptr.steps, Step("prop", tok, 0)),
                           !.expect = IF ~isScalar(d) THEN "elem"
                                      ELSE IF d.scalarValueType = "object" THEN "prop"
                                      ELSE "none",
                           !.container = IF d.nested # "none" THEN d.nested
                                         ELSE ptr.container],
                        noDash)
            IN IF tok \notin DOMAIN c.props THEN bad ELSE enter(c.props[tok])
        element(tok, pd, afterElem, bad) ==
            CASE isArray(pd) /\ tok = "-" ->
                    IF i = Len(toks) /\ ~noDash
                    THEN [ptr EXCEPT !.collectionElement = TRUE,
                                     !.steps = Append(ptr.steps, Step("dash", tok, 0)),
                                     !.expect = "none"]
                    ELSE bad
              [] isArray(pd) /\ tok # "-" ->
                    IF IsIndexToken(tok) THEN
                        ParseTokens(toks, i + 1,
                            [ptr EXCEPT !.collectionElement = TRUE,
                                        !.steps = Append(ptr.steps,
                                                         Step("idx", tok, TokenIndex(tok))),
                                        !.expect = afterElem],
                            noDash)
                    ELSE bad
              [] OTHER ->
                    ParseTokens(toks, i + 1,
                        [ptr EXCEPT !.collectionElement = TRUE,
                                    !.steps = Append(ptr.steps,
                                                     Step("key", Unescape(tok), 0)),
                                    !.expect = afterElem],
                        noDash)
    IN
    IF i > Len(toks) THEN ptr
    ELSE CASE ptr.expect = "prop" ->
                property(toks[i], Containers[ptr.container], BadPointer(toks))
           [] ptr.expect = "elem" ->
                element(toks[i], ptr.propDesc,
                        IF ptr.propDesc.scalarValueType = "object" THEN "prop" ELSE "none",
                        BadPointer(toks))
           [] OTHER -> BadPointer(toks)

\* pointers.parse(recordTypeDesc, propPointer, noDash)
ParsePointer(toks, noDash) ==
    ParseTokens(toks, 1, [RootPointer EXCEPT !.tokens = toks], noDash)

isRoot(ptr) == Len(ptr.tokens) = 0

\* ptr.toString()
PointerString(ptr) == ptr.tokens

\* ptr.isChildOf(otherPtr): otherPtr is a proper prefix of ptr
isChildOf(ptr, otherPtr) ==
    /\ Len(otherPtr.tokens) < Len(ptr.tokens)
    /\ SubSeq(ptr.tokens, 1, Len(otherPtr.tokens)) = otherPtr.tokens

(***************************************************************************)
(* Pointer navigation: getValue, addValue, replaceValue, removeValue.      *)
(* Each result carries err = "DataError" when the record lacks a location  *)
(* the pointer has to pass through.                                        *)
(***************************************************************************)
LastStep(ptr) == ptr.steps[Len(ptr.steps)]

\* the value one step below val (undefined when there is none)
Child(val, step) ==
    CASE step.k \in {"prop", "key"} ->
            IF val.t = "obj" THEN Prop(val, step.n) ELSE UNDEF
      [] step.k = "idx" ->
            IF val.t = "arr" /\ step.i < Len(val.v) THEN val.v[step.i + 1] ELSE UNDEF
      [] OTHER -> UNDEF

SetChild(val, step, x) ==
    IF step.k = "idx" THEN Arr([val.v EXCEPT ![step.i + 1] = x])
    ELSE WithProp(val, step.n, x)

\* the object, array or map that holds the pointer's last step
RECURSIVE HolderAt(_, _, _)
HolderAt(val, steps, i) ==
    LET down(c) == IF IsNullish(c) THEN UNDEF ELSE HolderAt(c, steps, i + 1) IN
    IF i >= Len(steps) THEN val ELSE down(Child(val, steps[i]))

Holder(ptr, record) == HolderAt(record, ptr.steps, 1)

\* the record with the holder of the pointer's last step replaced
RECURSIVE PutHolderAt(_, _, _, _)
PutHolderAt(val, steps, i, holder) ==
    IF i >= Len(steps) THEN holder
    ELSE SetChild(val, steps[i],
                  PutHolderAt(Child(val, steps[i]), steps, i + 1, holder))

PutHolder(ptr, record, holder) == PutHolderAt(record, ptr.steps, 1, holder)

Nav(err, record, value) == [err |-> err, rec |-> record, value |-> value]

\* the holder is there and is of the kind the last step needs
Fits(h, s) == IF s.k \in {"idx", "dash"} THEN h.t = "arr" ELSE h.t = "obj"

\* the value at the last step s below its holder h
ValueIn(h, s) ==
    LET read(c) == IF s.k = "prop" /\ IsNullish(c) THEN NULL ELSE c IN
    read(Child(h, s))

\* ptr.getValue(record): null for an empty property, undefined for an absent
\* array or map element
getValue(ptr, record) ==
    LET get(h, s) ==
            IF ~Fits(h, s) THEN Nav("DataError", record, UNDEF)
            ELSE Nav("", record, ValueIn(h, s))
    IN get(Holder(ptr, record), LastStep(ptr))

\* the record with holder in place of the holder of the pointer's last step,
\* and the value that was at the pointer
Put(ptr, record, holder, old) == Nav("", PutHolder(ptr, record, holder), old)

\* ptr.addValue(record, value): insert before an array index, append at "-",
\* set a map key or a whole property; value is the previous value there
addValue(ptr, record, value) ==
    LET add(h, s) ==
            IF ~Fits(h, s) \/ (s.k = "idx" /\ s.i > Len(h.v))
            THEN Nav("DataError", record, UNDEF)
            ELSE Put(ptr, record,
                     CASE s.k = "idx" -> Arr(InsertAt(h.v, s.i, value))
                       [] s.k = "dash" -> Arr(Append(h.v, value))
                       [] OTHER -> WithProp(h, s.n, value),
                     ValueIn(h, s))
    IN add(Holder(ptr, record), LastStep(ptr))

\* ptr.replaceValue(record, value): like addValue, but an existing array
\* element is replaced in place
replaceValue(ptr, record, value) ==
    LET replace(h, s) ==
            IF ~Fits(h, s) \/ (s.k = "idx" /\ s.i >= Len(h.v))
            THEN Nav("DataError", record, UNDEF)
            ELSE Put(ptr, record,
                     CASE s.k = "idx" -> SetChild(h, s, value)
                       [] s.k = "dash" -> Arr(Append(h.v, value))
                       [] OTHER -> WithProp(h, s.n, value),
                     ValueIn(h, s))
    IN replace(Holder(ptr, record), LastStep(ptr))

\* ptr.removeValue(record): delete an array element (the tail shifts left) or
\* a map key, null a whole property; value is what was there
removeValue(ptr, record) ==
    LET absent(h, s) ==
            \/ s.k = "dash"
            \/ s.k = "idx" /\ s.i >= Len(h.v)
            \/ s.k = "key" /\ s.n \notin DOMAIN h.v
        remove(h, s) ==
            IF ~Fits(h, s) THEN Nav("DataError", record, UNDEF)
            ELSE IF absent(h, s) THEN Nav("", record, UNDEF)
            ELSE Put(ptr, record,
                     CASE s.k = "idx" -> Arr(RemoveAt(h.v, s.i))
                       [] s.k = "key" -> WithoutProp(h, s.n)
                       [] OTHER -> WithProp(h, s.n, NULL),
                     ValueIn(h, s))
    IN remove(Holder(ptr, record), LastStep(ptr))

(***************************************************************************)
(* Equality helpers and the needsAdd / needsReplace decisions.             *)
(***************************************************************************)
\* The values compared are whatever the record and the operation hold, so
\* the JavaScript reading of .length, Object.keys and [k] is spelled out for
\* every kind of value; strings of the model are one character long.
JSLength(val) == IF val.t \in {"arr", "str"} THEN Len(val.v) ELSE -1

JSKeys(val) ==
    CASE val.t = "obj" -> DOMAIN val.v
      [] val.t \in {"arr", "str"} -> {IndexToken(i - 1) : i \in 1..Len(val.v)}
      [] OTHER -> {}

JSGet(val, k) ==
    CASE val.t = "obj" -> Prop(val, k)
      [] val.t = "arr" /\ k \in JSKeys(val) -> val.v[TokenIndex(k) + 1]
      [] val.t = "str" /\ k \in JSKeys(val) -> val
      [] OTHER -> UNDEF

Equal(err, equal) == [err |-> err, equal |-> equal]

Need(err, need) == [err |-> err, need |-> need]

\* arr2.every on a value that is not an array is a TypeError
equalSimpleArrays(arr1, arr2) ==
    IF Truthy(arr1) /\ JSLength(arr1) > 0 THEN
        IF ~Truthy(arr2) \/ JSLength(arr2) # JSLength(arr1) THEN Equal("", FALSE)
        ELSE IF arr2.t # "arr" THEN Equal("TypeError", FALSE)
        ELSE Equal("", \A i \in 1..Len(arr2.v) :
                          arr2.v[i] = JSGet(arr1, IndexToken(i - 1)))
    ELSE Equal("", ~Truthy(arr2) \/ JSLength(arr2) = 0)

equalSimpleMaps(map1, map2) ==
    IF Truthy(map1) /\ Cardinality(JSKeys(map1)) > 0 THEN
        Equal("", /\ Truthy(map2)
                  /\ Cardinality(JSKeys(map2)) = Cardinality(JSKeys(map1))
                  /\ \A k \in JSKeys(map2) : JSGet(map2, k) = JSGet(map1, k))
    ELSE Equal("", ~Truthy(map2) \/ Cardinality(JSKeys(map2)) = 0)

\* the decision taken from a comparison of the current value cur
Differs(cur, e) == Need(IF cur.err # "" THEN cur.err ELSE e.err, ~e.equal)

\* "TODO: implement": the three nested object comparisons answer false
equalObjectArrays == FALSE

equalObjectMaps == FALSE

equalObjects == FALSE

needsAdd(ptr, record, value) ==
    LET decide(propDesc, cur) ==
            IF isArray(propDesc) THEN
                IF ptr.collectionElement THEN Need("", TRUE)
                ELSE IF propDesc.scalarValueType = "object" THEN Need("", ~equalObjectArrays)
                ELSE Differs(cur, equalSimpleArrays(cur.value, value))
            ELSE IF isMap(propDesc) /\ ~ptr.collectionElement THEN
                IF propDesc.scalarValueType = "object" THEN Need("", ~equalObjectMaps)
                ELSE Differs(cur, equalSimpleMaps(cur.value, value))
            ELSE IF propDesc.scalarValueType = "object" THEN Need("", ~equalObjects)
            ELSE Need(cur.err, cur.value # value)
    IN decide(ptr.propDesc, getValue(ptr, record))

\* needsReplace without the comparison: a replace is always carried out
needsReplace_Always(ptr, record, value) == Need("", TRUE)

needsReplace(ptr, record, value) ==
    LET decide(propDesc, cur) ==
            IF ~ptr.collectionElement /\ isArray(propDesc) THEN
                IF propDesc.scalarValueType = "object" THEN Need("", ~equalObjectArrays)
                ELSE Differs(cur, equalSimpleArrays(cur.value, value))
            ELSE IF ~ptr.collectionElement /\ isMap(propDesc) THEN
                IF propDesc.scalarValueType = "object" THEN Need("", ~equalObjectMaps)
                ELSE Differs(cur, equalSimpleMaps(cur.value, value))
            ELSE IF propDesc.scalarValueType = "object" THEN Need("", ~equalObjects)
            ELSE Need(cur.err, cur.value # value)
    IN decide(ptr.propDesc, getValue(ptr, record))

(***************************************************************************)
(* Values held by reference.  addValue and replaceValue store the value    *)
(* they are given, so an array or object value of an operation that has    *)
(* been written into a record is one object with two owners: what a later  *)
(* operation changes below the place of the write changes the operation's  *)
(* value too.  alias is the set of [id, place]: the record holds the value *)
(* of operation id at place (a sequence of steps); vals is the set of      *)
(* [id, value]: the value of operation id after such changes.  A copy      *)
(* stores the object it has read, so the record then holds one object at   *)
(* two places: both are in alias under the id of the copy (or of the       *)
(* operation whose value the object is), and what is changed below one of  *)
(* them shows at the other.                                                *)
(***************************************************************************)
IsProperPrefix(a, b) == Len(a) < Len(b) /\ SubSeq(b, 1, Len(a)) = a
IsPrefix(a, b) == Len(a) <= Len(b) /\ SubSeq(b, 1, Len(a)) = a

NoHeap == [vals |-> {}, alias |-> {}]

\* this._value as it is now
ValueOf(vals, op) ==
    IF \E e \in vals : e.id = op.id
    THEN (CHOOSE e \in vals : e.id = op.id).value
    ELSE op.value

\* the value at a place of the record
ValueAt(record, place) == HolderAt(record, Append(place, Step("prop", "", 0)), 1)

IndexStep(i) == Step("idx", IndexToken(i), i)

\* the place a write through the pointer lands at: "-" is the index after
\* the last element
PlaceOf(ptr, record) ==
    LET n == Len(ptr.steps)
        landed(s) == IF s.k = "dash" THEN IndexStep(Len(Holder(ptr, record).v)) ELSE s
    IN Append(SubSeq(ptr.steps, 1, n - 1), landed(ptr.steps[n]))

\* what becomes of alias a when method ("add", "replace" or "remove") has
\* acted on step s of the holder at place holderPlace: elements behind an
\* inserted or removed array element shift, an overwritten or removed slot
\* lets go of what it held
Shifted(a, holderPlace, s, method) ==
    LET n == Len(holderPlace) + 1
        shift(t) ==
            CASE s.k = "idx" /\ method = "add" ->
                    IF t.i >= s.i THEN {[a EXCEPT !.place[n] = IndexStep(t.i + 1)]}
                    ELSE {a}
              [] s.k = "idx" /\ method = "remove" ->
                    IF t.i = s.i THEN {}
                    ELSE IF t.i > s.i THEN {[a EXCEPT !.place[n] = IndexStep(t.i - 1)]}
                    ELSE {a}
              [] OTHER -> IF t = s THEN {} ELSE {a}
    IN IF IsProperPrefix(holderPlace, a.place) THEN shift(a.place[n]) ELSE {a}

\* the record with value at place
PutAt(record, place, value) ==
    PutHolderAt(record, Append(place, Step("prop", "", 0)), 1, value)

\* the record with every value of puts, a set of [place, value], in place
RECURSIVE PutAll(_, _)
PutAll(record, puts) ==
    LET one(p) == PutAll(PutAt(record, p.place, p.value), puts \ {p})
    IN IF puts = {} THEN record ELSE one(CHOOSE p \in puts : TRUE)

\* the state after a pointer method has turned st.rec into record; id is the
\* operation whose value object went into the record (<<>> when none did)
Wrote(st, record, ptr, method, id) ==
    LET track(holderPlace, place) ==
            LET changed == {a \in st.alias :
                               /\ IsPrefix(a.place, holderPlace)
                               /\ ValueAt(record, a.place) # ValueAt(st.rec, a.place)}
                \* the other places that hold an object changed
                seen == UNION {{[place |-> b.place, value |-> ValueAt(record, a.place)] :
                                   b \in {c \in st.alias :
                                             c.id = a.id /\ c.place # a.place}} :
                               a \in changed}
            IN [st EXCEPT
                  !.rec = PutAll(record, seen),
                  !.vals = {e \in st.vals : \A a \in changed : a.id # e.id}
                           \cup {[id |-> a.id, value |-> ValueAt(record, a.place)] :
                                    a \in changed},
                  !.alias = UNION {Shifted(a, holderPlace, place[Len(place)], method) :
                                      a \in st.alias}
                            \cup (IF id = <<>> THEN {}
                                  ELSE {[id |-> id, place |-> place]})]
    IN IF st.alias = {} /\ id = <<>> THEN [st EXCEPT !.rec = record]
       ELSE track(SubSeq(ptr.steps, 1, Len(ptr.steps) - 1), PlaceOf(ptr, st.rec))

\* the operation that owns the object at the pointer (<<>> when none does)
OwnerAt(st, ptr) ==
    LET pick(owners) == IF owners = {} THEN <<>> ELSE (CHOOSE a \in owners : TRUE).id
        at(place) == pick({a \in st.alias : a.place = place})
    IN IF st.alias = {} THEN <<>> ELSE at(PlaceOf(ptr, st.rec))

\* the id under which a value goes into the record: scalars are not shared
Shared(value, id) == IF IsObjectLike(value) THEN id ELSE <<>>

(***************************************************************************)
(* Patch operations.  An apply call works on st = [rec, events, executed,  *)
(* result, failedTest, vals, alias]: the record, the handler calls made so *)
(* far, the operations entered so far, "true", "false", "DataError" or     *)
(* "TypeError", the id of the test operation that found its value unequal, *)
(* and the operation values held by reference (see above).  The            *)
(* handlers argument h is "absent" (apply(record)), "empty" (an object     *)
(* without callbacks) or "full" (an object with all four callbacks).       *)
(* Reading a callback off an absent handlers object is a TypeError.        *)
(***************************************************************************)
HandlerKinds == {"absent", "empty", "full"}

Event(h, op, ptr, newValue, oldValue, passed) ==
    [h |-> h, op |-> op, ptr |-> PointerString(ptr), newValue |-> newValue,
     oldValue |-> oldValue, passed |-> passed]

\* if (handlers.onX) handlers.onX(...)
Call(st, h, ev) ==
    CASE h = "absent" -> [st EXCEPT !.result = "TypeError"]
      [] h = "full" -> [st EXCEPT !.events = Append(st.events, ev)]
      [] OTHER -> st

Thrown(st, err) == [st EXCEPT !.result = err]

Enter(st, op) == [st EXCEPT !.executed = Append(st.executed, op.id)]

\* AddAt that reports an insert for every collection element
AddAt_InsertForElements(opName, ptr, value, id, st, h) ==
    LET written(w) ==
            IF w.err # "" THEN Thrown(st, w.err)
            ELSE Call(Wrote(st, w.rec, ptr, "add", Shared(value, id)), h,
                      Event(IF ptr.collectionElement THEN "onInsert" ELSE "onSet",
                            opName, ptr, value, w.value, TRUE))
        add(na) ==
            IF na.err # "" THEN Thrown(st, na.err)
            ELSE IF ~na.need THEN st
            ELSE written(addValue(ptr, st.rec, value))
    IN add(needsAdd(ptr, st.rec, value))

\* the tail shared by add, move and copy: write value, the value object of
\* operation id, at the target if needed and report an insert or a set
AddAt(opName, ptr, value, id, st, h) ==
    LET written(w) ==
            IF w.err # "" THEN Thrown(st, w.err)
            ELSE Call(Wrote(st, w.rec, ptr, "add", Shared(value, id)), h,
                      Event(IF ptr.collectionElement /\
                               (isArray(ptr.propDesc) \/ w.value = UNDEF)
                            THEN "onInsert" ELSE "onSet",
                            opName, ptr, value, w.value, TRUE))
        add(na) ==
            IF na.err # "" THEN Thrown(st, na.err)
            ELSE IF ~na.need THEN st
            ELSE written(addValue(ptr, st.rec, value))
    IN add(needsAdd(ptr, st.rec, value))

\* EraseAt without the check that an element was there
EraseAt_NoElementCheck(opName, ptr, st, h) ==
    LET erased(r) ==
            IF r.err # "" THEN Thrown(st, r.err)
            ELSE IF ptr.collectionElement THEN
                Call(Wrote(st, r.rec, ptr, "remove", <<>>), h,
                     Event("onRemove", opName, ptr, UNDEF, r.value, TRUE))
            ELSE IF r.value # NULL
                 THEN Call(Wrote(st, r.rec, ptr, "remove", <<>>), h,
                           Event("onSet", opName, ptr, NULL, r.value, TRUE))
                 ELSE [st EXCEPT !.rec = r.rec]
    IN erased(removeValue(ptr, st.rec))

\* the head shared by remove and move: erase at the pointer and report it
EraseAt(opName, ptr, st, h) ==
    LET erased(r) ==
            IF r.err # "" THEN Thrown(st, r.err)
            ELSE IF ptr.collectionElement THEN
                IF r.value = UNDEF THEN Thrown([st EXCEPT !.rec = r.rec], "DataError")
                ELSE Call(Wrote(st, r.rec, ptr, "remove", <<>>), h,
                          Event("onRemove", opName, ptr, UNDEF, r.value, TRUE))
            ELSE IF r.value # NULL
                 THEN Call(Wrote(st, r.rec, ptr, "remove", <<>>), h,
                           Event("onSet", opName, ptr, NULL, r.value, TRUE))
                 ELSE [st EXCEPT !.rec = r.rec]
    IN erased(removeValue(ptr, st.rec))

AddApply(op, st, h) ==
    AddAt("add", op.pathPtr, ValueOf(st.vals, op), op.id, st, h)

RemoveApply(op, st, h) == EraseAt("remove", op.pathPtr, st, h)

ReplaceApply(op, st, h) ==
    LET with(value) ==
            LET written(w) ==
                    IF w.err # "" THEN Thrown(st, w.err)
                    ELSE Call(Wrote(st, w.rec, op.pathPtr, "replace",
                                    Shared(value, op.id)), h,
                              Event("onSet", "replace", op.pathPtr, value, w.value, TRUE))
                replace(nr) ==
                    IF nr.err # "" THEN Thrown(st, nr.err)
                    ELSE IF ~nr.need THEN st
                    ELSE written(replaceValue(op.pathPtr, st.rec, value))
            IN replace(needsReplace(op.pathPtr, st.rec, value))
    IN with(ValueOf(st.vals, op))

\* the value at the source, the value object of operation id, is erased and
\* then added at the target
MoveValue(op, value, id, erased, h) ==
    IF erased.result # "true" THEN erased
    ELSE AddAt("move", op.pathPtr, value, id, erased, h)

\* move that adds at the target before it erases at the source
MoveApply_AddFirst(op, st, h) ==
    LET erase(added) ==
            IF added.result # "true" THEN added
            ELSE EraseAt("move", op.fromPtr, added, h)
    IN IF PointerString(op.pathPtr) = PointerString(op.fromPtr) THEN st
       ELSE erase(AddAt("move", op.pathPtr, getValue(op.fromPtr, st.rec).value,
                        OwnerAt(st, op.fromPtr), st, h))

\* move without the early return for equal pointers
MoveApply_NoSelfCheck(op, st, h) ==
    MoveValue(op, removeValue(op.fromPtr, st.rec).value, OwnerAt(st, op.fromPtr),
              EraseAt("move", op.fromPtr, st, h), h)

MoveApply(op, st, h) ==
    IF PointerString(op.pathPtr) = PointerString(op.fromPtr) THEN st
    ELSE MoveValue(op, removeValue(op.fromPtr, st.rec).value, OwnerAt(st, op.fromPtr),
                   EraseAt("move", op.fromPtr, st, h), h)

\* the state in which the object at the pointer has an owner: operation id
\* when it had none
Owned(st, ptr, value, id) ==
    IF IsObjectLike(value) /\ OwnerAt(st, ptr) = <<>>
    THEN [st EXCEPT !.alias = @ \cup {[id |-> id, place |-> PlaceOf(ptr, st.rec)]}]
    ELSE st

CopyApply(op, st, h) ==
    LET stored(value, sto) ==
            AddAt("copy", op.pathPtr, value, OwnerAt(sto, op.fromPtr), sto, h)
        copy(g) ==
            IF g.err # "" THEN Thrown(st, g.err)
            ELSE IF g.value = UNDEF THEN Thrown(st, "DataError")
            ELSE stored(g.value, Owned(st, op.fromPtr, g.value, op.id))
    IN copy(getValue(op.fromPtr, st.rec))

TestApply(op, st, h) ==
    LET answer(nr, called) ==
            IF called.result # "true" THEN called
            ELSE IF nr.need THEN [called EXCEPT !.result = "false"] ELSE called
        test(nr) ==
            IF nr.err # "" THEN Thrown(st, nr.err)
            ELSE answer(nr, Call(IF nr.need THEN [st EXCEPT !.failedTest = op.id] ELSE st,
                                 h, Event("onTest", "test", op.pathPtr, op.value,
                                          UNDEF, ~nr.need)))
    IN test(needsReplace(op.pathPtr, st.rec, op.value))

RECURSIVE OperationApply(_, _, _)
RECURSIVE PatchApplyFrom(_, _, _, _)

\* merge: patch the target when it is there; otherwise "this._addOp(record,
\* handlers)", a call of an object that is not a function
MergeApply(op, st, h) ==
    LET merge(g) ==
            IF g.err # "" THEN Thrown(st, g.err)
            ELSE IF Truthy(g.value) THEN PatchApplyFrom(op.patchOps, 1, st, h)
            ELSE Thrown(st, "TypeError")
    IN merge(getValue(op.pathPtr, st.rec))

\* patchOp.apply(record, handlers)
OperationApply(op, st0, h) ==
    LET st == Enter(st0, op) IN
    CASE op.op = "add" -> AddApply(op, st, h)
      [] op.op = "merge" -> MergeApply(op, st, h)
      [] op.op = "remove" -> RemoveApply(op, st, h)
      [] op.op = "replace" -> ReplaceApply(op, st, h)
      [] op.op = "move" -> MoveApply(op, st, h)
      [] op.op = "copy" -> CopyApply(op, st, h)
      [] OTHER -> TestApply(op, st, h)

\* the loop of RecordPatch.apply from operation i on
PatchApplyFrom(ops, i, st, h) ==
    LET step(next) ==
            IF next.result # "true" THEN next
            ELSE PatchApplyFrom(ops, i + 1, next, h)
    IN IF i > Len(ops) THEN st ELSE step(OperationApply(ops[i], st, h))

\* RecordPatch.apply(record, handlers) of a patch whose operation values
\* are held as hp says
PatchApplyIn(ops, record, h, hp) ==
    PatchApplyFrom(ops, 1,
        [rec |-> record, events |-> <<>>, executed |-> <<>>, result |-> "true",
         failedTest |-> <<>>, vals |-> hp.vals, alias |-> hp.alias], h)

\* RecordPatch.apply(record, handlers) of a patch as build returned it
PatchApply(ops, record, h) == PatchApplyIn(ops, record, h, NoHeap)

(***************************************************************************)
(* The patch builder.  A build works on ctx = [err, reason, involved,      *)
(* updated]: the error thrown so far ("" when none) with the reason of its *)
(* message, and the two property path sets.                                *)
(***************************************************************************)
NewContext == [err |-> "", reason |-> "", involved |-> {}, updated |-> {}]

Fail(ctx, err, reason) ==
    IF ctx.err # "" THEN ctx ELSE [ctx EXCEPT !.err = err, !.reason = reason]

\* resolvePropPointer without the check of the SET use
resolvePropPointer_NoSetCheck(propPointer, noDash, ptrUse) ==
    LET check(ptr) ==
            LET res(reason) == [err |-> IF reason = "" THEN "" ELSE "SyntaxError",
                                reason |-> reason, ptr |-> ptr]
            IN
            IF ptr.err # "" THEN res("invalid pointer")
            ELSE IF isRoot(ptr) THEN res("top record as a whole")
            ELSE IF /\ ptrUse = "ERASE"
                    /\ (isScalar(ptr.propDesc) \/ ~ptr.collectionElement)
                    /\ ~ptr.propDesc.optional
                THEN res("may not remove a required property")
            ELSE res("")
    IN check(ParsePointer(propPointer, noDash))

\* resolvePropPointer: [err, reason, ptr]
resolvePropPointer(propPointer, noDash, ptrUse) ==
    LET check(ptr) ==
            LET res(reason) == [err |-> IF reason = "" THEN "" ELSE "SyntaxError",
                                reason |-> reason, ptr |-> ptr]
            IN
            IF ptr.err # "" THEN res("invalid pointer")
            ELSE IF isRoot(ptr) THEN res("top record as a whole")
            ELSE IF ptrUse = "SET" /\ ~ptr.propDesc.modifiable
                THEN res("may not update non-modifiable property")
            ELSE IF /\ ptrUse = "ERASE"
                    /\ (isScalar(ptr.propDesc) \/ ~ptr.collectionElement)
                    /\ ~ptr.propDesc.optional
                THEN res("may not remove a required property")
            ELSE res("")
    IN check(ParsePointer(propPointer, noDash))

\* x2node-records: id properties are generated unless declared otherwise
isGenerated(propDesc) == propDesc.id

\* val[name] for any value (a string or a number has no such property)
Member(val, name) == IF val.t = "obj" THEN Prop(val, name) ELSE UNDEF

\* Object.keys(val) and val[k] for an object or an array
KeysOf(val) == IF val.t = "arr" THEN 1..Len(val.v) ELSE DOMAIN val.v

RECURSIVE isInvalidScalarValueType(_, _, _)
RECURSIVE isValidObjectValue(_, _, _)

\* the error message ("" for false: the value is valid)
isInvalidScalarValueType(val, propDesc, forUpdate) ==
    CASE propDesc.scalarValueType = "string" ->
            IF val # NULL /\ val.t # "str" THEN "expected string." ELSE ""
      [] propDesc.scalarValueType = "number" ->
            IF (val # NULL /\ val.t # "num") \/ val.t # "num"
            THEN "expected number." ELSE ""
      [] propDesc.scalarValueType = "object" ->
            IF val = NULL THEN "unexpected null instead of an object."
            ELSE IF ~isValidObjectValue(val, propDesc, forUpdate)
                 THEN "expected matching object properties."
                 ELSE ""
      [] OTHER -> ""

isValidObjectValue(val, objectPropDesc, forUpdate) ==
    LET valid(propDesc, propVal) ==
            IF IsNullish(propVal)
            THEN ~(~propDesc.optional /\ (~forUpdate \/ ~isGenerated(propDesc)))
            ELSE IF isArray(propDesc) THEN
                /\ propVal.t = "arr"
                /\ ~(~propDesc.optional /\ Len(propVal.v) = 0)
                /\ \A i \in 1..Len(propVal.v) :
                     isInvalidScalarValueType(propVal.v[i], propDesc, forUpdate) = ""
            ELSE IF isMap(propDesc) THEN
                /\ IsObjectLike(propVal)
                /\ ~(~propDesc.optional /\ KeysOf(propVal) = {})
                /\ \A k \in KeysOf(propVal) :
                     isInvalidScalarValueType(propVal.v[k], propDesc, forUpdate) = ""
            ELSE isInvalidScalarValueType(propVal, propDesc, forUpdate) = ""
        each(container) ==
            \A n \in 1..Len(container.allPropertyNames) :
                valid(container.props[container.allPropertyNames[n]],
                      Member(val, container.allPropertyNames[n]))
    IN each(Containers[objectPropDesc.nested])

\* the message for the first invalid element of an array from element i on
\* ("" when all are valid)
RECURSIVE InvalidElement(_, _, _, _)
InvalidElement(arr, i, propDesc, forUpdate) ==
    LET first(msg) ==
            IF msg # "" THEN msg ELSE InvalidElement(arr, i + 1, propDesc, forUpdate)
    IN IF i > Len(arr) THEN ""
       ELSE first(isInvalidScalarValueType(arr[i], propDesc, forUpdate))

\* validatePatchOperationValue: the reason of the SyntaxError, "" when valid
validatePatchOperationValue(opType, pathPtr, val, forUpdate) ==
    LET propDesc == pathPtr.propDesc IN
    IF val = UNDEF THEN "no value is provided for the operation."
    ELSE IF opType = "merge" THEN
        IF ~IsObjectLike(val) THEN "merge value must be a non-null object."
        ELSE IF /\ ~(isMap(propDesc) /\ ~pathPtr.collectionElement)
                /\ ~(/\ propDesc.scalarValueType = "object"
                     /\ (isScalar(propDesc) \/ pathPtr.collectionElement))
             THEN "invalid merge target record element type."
             ELSE ""
    ELSE IF val = NULL THEN
        IF (isScalar(propDesc) \/ ~pathPtr.collectionElement) /\ ~propDesc.optional
        THEN "null for required property."
        ELSE IF pathPtr.collectionElement /\ propDesc.scalarValueType = "object"
             THEN "null for nested object collection element."
             ELSE ""
    ELSE IF isArray(propDesc) /\ ~pathPtr.collectionElement THEN
        IF val.t # "arr" THEN "expected an array."
        ELSE IF ~propDesc.optional /\ Len(val.v) = 0
             THEN "empty array for required property."
        ELSE InvalidElement(val.v, 1, propDesc, forUpdate)
    ELSE IF isMap(propDesc) /\ ~pathPtr.collectionElement THEN
        IF ~IsObjectLike(val) THEN "expected an object."
        ELSE IF ~propDesc.optional /\ KeysOf(val) = {}
             THEN "empty object for required property."
        ELSE IF \E k \in KeysOf(val) :
                    isInvalidScalarValueType(val.v[k], propDesc, forUpdate) # ""
             THEN "invalid map element."
             ELSE ""
    ELSE isInvalidScalarValueType(val, propDesc, forUpdate)

\* isCompatibleObjects; allPropertyNames is read off the nested container
RECURSIVE isCompatibleObjects(_, _)
isCompatibleObjects(objectPropDesc1, objectPropDesc2) ==
    LET both(propDesc1, propDesc2) ==
            /\ ~(~propDesc1.optional /\ propDesc2.optional)
            /\ propDesc1.struct = propDesc2.struct
            /\ propDesc1.scalarValueType = propDesc2.scalarValueType
            /\ (propDesc1.scalarValueType = "object"
                  => isCompatibleObjects(propDesc1, propDesc2))
        compatible(props1, props2) ==
            /\ \A propName \in DOMAIN props1 :
                 IF propName \notin DOMAIN props2 THEN props1[propName].optional
                 ELSE both(props1[propName], props2[propName])
            /\ (DOMAIN props2) \subseteq (DOMAIN props1)
    IN compatible(Containers[objectPropDesc1.nested].props,
                  Containers[objectPropDesc2.nested].props)

\* validatePatchOperationFrom: the reason of the SyntaxError, "" when valid.
\* The shape checks read collectionElement off the source's property
\* descriptor, which has no such member (it is the pointer's).
validatePatchOperationFrom(pathPtr, fromPtr, forMove) ==
    LET fromPropDesc == fromPtr.propDesc
        toPropDesc == pathPtr.propDesc
        fromPropDescCollectionElement == FALSE
    IN
    IF forMove /\ isChildOf(pathPtr, fromPtr)
        THEN "may not move location into one of its children."
    ELSE IF fromPropDesc.scalarValueType # toPropDesc.scalarValueType
        THEN "incompatible property value types."
    ELSE IF /\ toPropDesc.scalarValueType = "object"
            /\ ~isCompatibleObjects(fromPropDesc, toPropDesc)
        THEN "incompatible nested objects."
    ELSE IF isArray(toPropDesc) /\ ~pathPtr.collectionElement THEN
        IF ~isArray(fromPropDesc) \/ fromPropDescCollectionElement
        THEN "not an array." ELSE ""
    ELSE IF isMap(toPropDesc) /\ ~pathPtr.collectionElement THEN
        IF ~isMap(fromPropDesc) \/ fromPropDescCollectionElement
        THEN "not a map." ELSE ""
    ELSE IF ~isScalar(fromPropDesc) /\ ~fromPtr.collectionElement
        THEN "not a scalar."
    ELSE ""

\* the prefixes propPathParts[0..i], i < length - 1
AncestorPaths(propPath) == {SubSeq(propPath, 1, n) : n \in 1..(Len(propPath) - 1)}

\* addInvolvedObjectProperty calls itself with the same descriptor for a
\* nested object property: it never returns (RangeError, stack exhausted)
addInvolvedObjectProperty(objectPropDesc, ctx, forUpdate) ==
    LET added(paths) ==
            [ctx EXCEPT !.involved = @ \cup paths,
                        !.updated = IF forUpdate THEN @ \cup paths ELSE @]
        add(container) ==
            IF \E n \in DOMAIN container.props :
                    container.props[n].scalarValueType = "object"
            THEN Fail(ctx, "RangeError", "maximum call stack size exceeded")
            ELSE added({container.nestedPath \o <<n>> : n \in DOMAIN container.props})
    IN add(Containers[objectPropDesc.nested])

addInvolvedProperty(pathPtr, ctx0, forUpdate) ==
    LET add(ctx) ==
            IF pathPtr.propDesc.scalarValueType = "object"
                THEN addInvolvedObjectProperty(pathPtr.propDesc, ctx, forUpdate)
            ELSE [ctx EXCEPT !.involved = @ \cup {pathPtr.propPath},
                             !.updated = IF forUpdate THEN @ \cup {pathPtr.propPath}
                                         ELSE @]
    IN
    IF ctx0.err # "" THEN ctx0
    ELSE add(IF forUpdate
             THEN [ctx0 EXCEPT !.updated = @ \cup AncestorPaths(pathPtr.propPath)]
             ELSE ctx0)

(***************************************************************************)
(* parsePatchOperation and build.  An operation definition is              *)
(* [op, path, value, from, patch] (value UNDEF, from and patch empty when  *)
(* the definition has none); a built operation keeps its resolved          *)
(* pointers and its id: its position, below its merge operation's id.      *)
(***************************************************************************)
OpDef(op, path, value, from, nested) ==
    [op |-> op, path |-> path, value |-> value, from |-> from, patch |-> nested]

OpNames == {"add", "merge", "remove", "replace", "move", "copy", "test"}

Check(ctx, reason) ==
    IF ctx.err # "" \/ reason = "" THEN ctx ELSE Fail(ctx, "SyntaxError", reason)

RECURSIVE parsePatchOperation(_, _, _)
RECURSIVE ParseOperations(_, _, _, _)

\* patch.map(parsePatchOperation) from definition i on; stops at the first
\* error thrown
ParseOperations(defs, i, parentId, acc) ==
    LET parsed(r) ==
            ParseOperations(defs, i + 1, parentId,
                            [ctx |-> r.ctx, ops |-> Append(acc.ops, r.op)])
    IN IF i > Len(defs) \/ acc.ctx.err # "" THEN acc
       ELSE parsed(parsePatchOperation(defs[i], parentId \o <<i>>, acc.ctx))

parsePatchOperation(patchOpDef, id, ctx) ==
    LET op == patchOpDef.op
        built(c, pathPtr, fromPtr, patchOps) ==
            [ctx |-> c,
             op |-> [op |-> op, pathPtr |-> pathPtr, value |-> patchOpDef.value,
                     fromPtr |-> fromPtr, patchOps |-> patchOps, id |-> id]]
        \* merge: the operations of the nested patch
        withNested(pathPtr, nested) == built(nested.ctx, pathPtr, RootPointer, nested.ops)
        \* add, replace, test, merge: the value
        withValue(pathPtr, c) ==
            IF op = "merge"
            THEN withNested(pathPtr, ParseOperations(patchOpDef.patch, 1, id,
                                                     [ctx |-> c, ops |-> <<>>]))
            ELSE built(c, pathPtr, RootPointer, <<>>)
        \* move, copy: the source
        withFrom(pathPtr, from, c) ==
            built(addInvolvedProperty(
                      from.ptr,
                      Check(Check(c, from.reason),
                            validatePatchOperationFrom(pathPtr, from.ptr, op = "move")),
                      op = "move"),
                  pathPtr, from.ptr, <<>>)
        involved(pathPtr, c) ==
            CASE op = "remove" -> built(c, pathPtr, RootPointer, <<>>)
              [] op \in {"move", "copy"} ->
                    withFrom(pathPtr,
                             resolvePropPointer(patchOpDef.from, TRUE,
                                                IF op = "move" THEN "ERASE" ELSE "READ"),
                             c)
              [] OTHER ->
                    withValue(pathPtr,
                              Check(c, validatePatchOperationValue(
                                           op, pathPtr, patchOpDef.value, op # "test")))
        resolved(path) ==
            involved(path.ptr,
                     addInvolvedProperty(path.ptr, Check(ctx, path.reason), op # "test"))
    IN
    IF op \notin OpNames
    THEN built(Fail(ctx, "SyntaxError", "unknown operation"), RootPointer, RootPointer, <<>>)
    ELSE resolved(resolvePropPointer(
                      patchOpDef.path, op \in {"merge", "remove", "test"},
                      CASE op \in {"add", "merge", "replace", "move", "copy"} -> "SET"
                        [] op = "remove" -> "ERASE"
                        [] OTHER -> "READ"))

\* build(recordTypes, recordTypeName, patch): [err, reason, ops, involvedPropPaths,
\* updatedPropPaths]; no patch object (ops empty) when it throws
build(recordTypeName, patchArg) ==
    LET thrown(err, reason) ==
            [err |-> err, reason |-> reason, ops |-> <<>>,
             involvedPropPaths |-> {}, updatedPropPaths |-> {}]
        returned(r) ==
            IF r.ctx.err # "" THEN thrown(r.ctx.err, r.ctx.reason)
            ELSE [err |-> "", reason |-> "", ops |-> r.ops,
                  involvedPropPaths |-> r.ctx.involved,
                  updatedPropPaths |-> r.ctx.updated]
    IN
    IF ~hasRecordType(recordTypeName)
        THEN thrown("UsageError", "unknown record type")
    ELSE IF patchArg.t # "arr"
        THEN thrown("SyntaxError", "patch specification is not an array")
    ELSE returned(ParseOperations(patchArg.v, 1, <<>>, [ctx |-> NewContext, ops |-> <<>>]))

NoPatch == [err |-> "none", reason |-> "", ops |-> <<>>,
            involvedPropPaths |-> {}, updatedPropPaths |-> {}]

(***************************************************************************)
(* buildMerge.  A merge patch object is [t |-> "mobj", v |-> entries]: its *)
(* properties as the for-in loop visits them, each entry [k, v] a property *)
(* name with null, a scalar, an array or a nested merge patch object.      *)
(***************************************************************************)
Entry(k, v) == [k |-> k, v |-> v]
MObj(entries) == [t |-> "mobj", v |-> entries]

\* levelMergePatch[propName]
EntryValue(entries, propName) ==
    entries[CHOOSE n \in 1..Len(entries) : entries[n].k = propName].v

\* the object a merge patch object is as an operation value
RECURSIVE Plain(_)
Plain(val) ==
    IF val.t # "mobj" THEN val
    ELSE Obj([k \in {val.v[n].k : n \in 1..Len(val.v)} |->
                Plain(EntryValue(val.v, k))])

\* the tokens a pointer parser reads off '/' + propName: the name is put
\* into the pointer string as it is
RawTokens(propName) == IF propName = "a/b" THEN <<"a", "b">> ELSE <<propName>>

\* buildMergeLevel(basePtr, levelMergePatch, jsonPatch): the operation
\* definitions pushed to jsonPatch
RECURSIVE buildMergeLevel(_, _)
buildMergeLevel(basePtr, entries) ==
    LET push(mergeVal, path) ==
            IF mergeVal = NULL THEN OpDef("remove", path, UNDEF, <<>>, <<>>)
            ELSE IF mergeVal.t = "arr" THEN OpDef("replace", path, mergeVal, <<>>, <<>>)
            ELSE IF mergeVal.t = "mobj"
                THEN OpDef("merge", path, Plain(mergeVal), <<>>,
                           buildMergeLevel(path, mergeVal.v))
            ELSE OpDef("replace", path, mergeVal, <<>>, <<>>)
    IN [n \in 1..Len(entries) |->
            push(entries[n].v, basePtr \o RawTokens(entries[n].k))]

\* buildMerge(recordTypes, recordTypeName, mergePatch)
buildMerge(recordTypeName, merge) ==
    IF merge.t # "mobj"
    THEN [err |-> "SyntaxError", reason |-> "merge patch must be an object",
          ops |-> <<>>, involvedPropPaths |-> {}, updatedPropPaths |-> {}]
    ELSE build(recordTypeName, Arr(buildMergeLevel(<<>>, merge.v)))

(***************************************************************************)
(* The record differ.  A diff result is [err, ops]: the error thrown ("",  *)
(* when none) and the operation definitions pushed to patchSpec so far.    *)
(* Array cursors count from 0 as in the code.  The record types of the     *)
(* library have no polymorphic objects, views, calculated or meta-info     *)
(* properties, so those branches are not taken.                            *)
(***************************************************************************)
\* what the message of an error of the differ says: its kind, the path it
\* is about and the property names it lists
Why(kind, at, names) == [kind |-> kind, at |-> at, names |-> names]
NoWhy == Why("", <<>>, {})

\* the differ's outcome: the error thrown ("" when none) with its message,
\* and the operations pushed to the patch specification so far
DiffThrown(err, why, ops) == [err |-> err, why |-> why, ops |-> ops]
Diff(err, ops) == DiffThrown(err, NoWhy, ops)

RemoveDef(path) == OpDef("remove", path, UNDEF, <<>>, <<>>)
ValueDef(op, path, value) == OpDef(op, path, value, <<>>, <<>>)

Min(a, b) == IF a < b THEN a ELSE b

\* arr[i], i counted from 0
At(arr, i) == arr[i + 1]

\* the first di >= from with keys[di] = key, Len(keys) when there is none
RECURSIVE IndexFrom(_, _, _)
IndexFrom(keys, from, key) ==
    IF from >= Len(keys) THEN Len(keys)
    ELSE IF At(keys, from) = key THEN from
    ELSE IndexFrom(keys, from + 1, key)

\* the first sni >= from such that keysOld[sni] occurs in keysNew at or
\* after iNew, Len(keysOld) when there is none
RECURSIVE AnchorFrom(_, _, _, _)
AnchorFrom(keysOld, from, keysNew, iNew) ==
    IF from >= Len(keysOld) THEN Len(keysOld)
    ELSE IF IndexFrom(keysNew, iNew, At(keysOld, from)) < Len(keysNew) THEN from
    ELSE AnchorFrom(keysOld, from + 1, keysNew, iNew)

\* n operations "op" at path/(t + k) with the values arrNew[iNew + k]
ValueRun(op, propPath, arrNew, iNew, t, n) ==
    [k \in 1..n |-> ValueDef(op, Append(propPath, IndexToken(t + k - 1)),
                             At(arrNew, iNew + k - 1))]

\* n removes, all at the index of the first element of the run
RemoveRun_AtFirst(propPath, last, n) ==
    [k \in 1..n |-> RemoveDef(Append(propPath, IndexToken(last - n + 1)))]

\* n removes, each at the index the element has once those after it in the
\* run are gone: path/(last), ..., path/(last - n + 1)
RemoveRun(propPath, last, n) ==
    [k \in 1..n |-> RemoveDef(Append(propPath, IndexToken(last - (k - 1))))]

\* the remaining new elements appended at the tail
TailAdds(propPath, arrNew, iNew) ==
    [k \in 1..(Len(arrNew) - iNew) |->
        ValueDef("add", Append(propPath, "-"), At(arrNew, iNew + k - 1))]

\* DiffValueStep with the old cursor moved by two where the old element is
\* found further on in the new array
DiffValueStep_SkipsOld(propPath, arrOld, arrNew, s) ==
    LET iOld == s.iOld
        iNew == s.iNew
        t == s.t
        lenOld == Len(arrOld)
        lenNew == Len(arrNew)
        \* the old element is found at di in the new array: those before it
        \* are inserted
        insert(di) ==
            [iOld |-> iOld + 2, iNew |-> di + 1, t |-> t + (di - iNew) + 1,
             ops |-> s.ops \o ValueRun("add", propPath, arrNew, iNew, t, di - iNew),
             left |-> FALSE]
        \* the old element at sni is found at adi in the new array: of those
        \* before the two, nrep are replaced and the rest removed or inserted
        realign(sni, adi, nrep) ==
            [iOld |-> sni + 1, iNew |-> adi + 1, t |-> t + (adi - iNew) + 1,
             ops |-> s.ops
                     \o ValueRun("replace", propPath, arrNew, iNew, t, nrep)
                     \o RemoveRun(propPath, t + (sni - iOld) - 1, sni - iOld - nrep)
                     \o ValueRun("add", propPath, arrNew, iNew + nrep, t + nrep,
                                 adi - iNew - nrep),
             left |-> FALSE]
        found(sni, adi) == realign(sni, adi, Min(sni - iOld, adi - iNew))
        anchored(sni) ==
            IF sni < lenOld THEN found(sni, IndexFrom(arrNew, iNew, At(arrOld, sni)))
            ELSE [s EXCEPT !.left = TRUE]
        searched(di) ==
            IF di < lenNew THEN insert(di)
            ELSE anchored(AnchorFrom(arrOld, iOld + 1, arrNew, iNew))
    IN
    IF At(arrOld, iOld) = At(arrNew, iNew)
    THEN [s EXCEPT !.iOld = iOld + 1, !.iNew = iNew + 1, !.t = t + 1]
    ELSE searched(IndexFrom(arrNew, iNew, At(arrOld, iOld)))

\* one pass through the body of the main loop of diffValueArrays;
\* s = [iOld, iNew, t, ops, left], left once the loop is left by break
DiffValueStep(propPath, arrOld, arrNew, s) ==
    LET iOld == s.iOld
        iNew == s.iNew
        t == s.t
        lenOld == Len(arrOld)
        lenNew == Len(arrNew)
        \* the old element is found at di in the new array: those before it
        \* are inserted
        insert(di) ==
            [iOld |-> iOld + 1, iNew |-> di + 1, t |-> t + (di - iNew) + 1,
             ops |-> s.ops \o ValueRun("add", propPath, arrNew, iNew, t, di - iNew),
             left |-> FALSE]
        \* the old element at sni is found at adi in the new array: of those
        \* before the two, nrep are replaced and the rest removed or inserted
        realign(sni, adi, nrep) ==
            [iOld |-> sni + 1, iNew |-> adi + 1, t |-> t + (adi - iNew) + 1,
             ops |-> s.ops
                     \o ValueRun("replace", propPath, arrNew, iNew, t, nrep)
                     \o RemoveRun(propPath, t + (sni - iOld) - 1, sni - iOld - nrep)
                     \o ValueRun("add", propPath, arrNew, iNew + nrep, t + nrep,
                                 adi - iNew - nrep),
             left |-> FALSE]
        found(sni, adi) == realign(sni, adi, Min(sni - iOld, adi - iNew))
        anchored(sni) ==
            IF sni < lenOld THEN found(sni, IndexFrom(arrNew, iNew, At(arrOld, sni)))
            ELSE [s EXCEPT !.left = TRUE]
        searched(di) ==
            IF di < lenNew THEN insert(di)
            ELSE anchored(AnchorFrom(arrOld, iOld + 1, arrNew, iNew))
    IN
    IF At(arrOld, iOld) = At(arrNew, iNew)
    THEN [s EXCEPT !.iOld = iOld + 1, !.iNew = iNew + 1, !.t = t + 1]
    ELSE searched(IndexFrom(arrNew, iNew, At(arrOld, iOld)))

\* the main loop of diffValueArrays: while ((iOld < lenOld) && (iNew < lenNew))
RECURSIVE DiffValueLoop(_, _, _, _)
DiffValueLoop(propPath, arrOld, arrNew, s) ==
    IF ~(s.iOld < Len(arrOld) /\ s.iNew < Len(arrNew)) \/ s.left THEN s
    ELSE DiffValueLoop(propPath, arrOld, arrNew,
                       DiffValueStep(propPath, arrOld, arrNew, s))

\* what is left of the two arrays is removed and appended, nothing replaced
DiffValueFrom_NoReplace(propPath, arrOld, arrNew, s0) ==
    LET finish(s) ==
            s.ops \o RemoveRun(propPath, s.t + (Len(arrOld) - s.iOld) - 1,
                               Len(arrOld) - s.iOld)
                  \o TailAdds(propPath, arrNew, s.iNew)
    IN finish(DiffValueLoop(propPath, arrOld, arrNew, s0))

\* diffValueArrays from the cursors s0 on: the main loop, then the loops
\* for what is left of the two arrays
DiffValueFrom(propPath, arrOld, arrNew, s0) ==
    LET tail(s, nrep) ==
            s.ops \o ValueRun("replace", propPath, arrNew, s.iNew, s.t, nrep)
                  \o RemoveRun(propPath, s.t + (Len(arrOld) - s.iOld) - 1,
                               Len(arrOld) - s.iOld - nrep)
                  \o TailAdds(propPath, arrNew, s.iNew + nrep)
        finish(s) == tail(s, Min(Len(arrOld) - s.iOld, Len(arrNew) - s.iNew))
    IN finish(DiffValueLoop(propPath, arrOld, arrNew, s0))

diffValueArrays(propPath, arrOld, arrNew) ==
    DiffValueFrom(propPath, arrOld, arrNew,
                  [iOld |-> 0, iNew |-> 0, t |-> 0, ops |-> <<>>, left |-> FALSE])

RECURSIVE diffObjects(_, _, _, _)

\* valOld[idPropName] of every element
Ids(arr, idPropName) == [k \in 1..Len(arr) |-> Prop(arr[k], idPropName)]

\* one pass through the body of the main loop of diffObjectArrays;
\* s = [iOld, iNew, t, err, why, ops, left], left once the loop is left by
\* break.  Only the pair found with equal ids at both cursors is handed to
\* diffObjects.
DiffObjectStep(propDesc, propPath, arrOld, arrNew, s) ==
    LET iOld == s.iOld
        iNew == s.iNew
        t == s.t
        lenOld == Len(arrOld)
        lenNew == Len(arrNew)
        paired(pair) ==
            [iOld |-> iOld + 1, iNew |-> iNew + 1, t |-> t + 1,
             err |-> pair.err, why |-> pair.why, ops |-> s.ops \o pair.ops,
             left |-> FALSE]
        insert(di) ==
            [iOld |-> iOld + 1, iNew |-> di + 1, t |-> t + (di - iNew) + 1,
             err |-> "", why |-> NoWhy,
             ops |-> s.ops \o ValueRun("add", propPath, arrNew, iNew, t, di - iNew),
             left |-> FALSE]
        realign(sni, adi) ==
            [iOld |-> sni + 1, iNew |-> adi + 1, t |-> t + (adi - iNew) + 1,
             err |-> "", why |-> NoWhy,
             ops |-> s.ops
                     \o RemoveRun(propPath, t + (sni - iOld) - 1, sni - iOld)
                     \o ValueRun("add", propPath, arrNew, iNew, t, adi - iNew),
             left |-> FALSE]
        anchored(idsOld, idsNew, sni) ==
            IF sni < lenOld THEN realign(sni, IndexFrom(idsNew, iNew, At(idsOld, sni)))
            ELSE [s EXCEPT !.left = TRUE]
        searched(idsOld, idsNew, di) ==
            IF di < lenNew THEN insert(di)
            ELSE anchored(idsOld, idsNew, AnchorFrom(idsOld, iOld + 1, idsNew, iNew))
        compare(container, idsOld, idsNew) ==
            IF At(idsOld, iOld) = At(idsNew, iNew)
            THEN paired(diffObjects(container, Append(propPath, IndexToken(t)),
                                    At(arrOld, iOld), At(arrNew, iNew)))
            ELSE searched(idsOld, idsNew, IndexFrom(idsNew, iNew, At(idsOld, iOld)))
        loop(container) ==
            compare(container, Ids(arrOld, container.idPropertyName),
                    Ids(arrNew, container.idPropertyName))
    IN loop(Containers[propDesc.nested])

\* the main loop of diffObjectArrays: while ((iOld < lenOld) && (iNew < lenNew)),
\* left also by the error a pair throws
RECURSIVE DiffObjectLoop(_, _, _, _, _)
DiffObjectLoop(propDesc, propPath, arrOld, arrNew, s) ==
    IF ~(s.iOld < Len(arrOld) /\ s.iNew < Len(arrNew)) \/ s.err # "" \/ s.left THEN s
    ELSE DiffObjectLoop(propDesc, propPath, arrOld, arrNew,
                        DiffObjectStep(propDesc, propPath, arrOld, arrNew, s))

\* diffObjectArrays without the check for an id property
diffObjectArrays_NoIdCheck(propDesc, propPath, arrOld, arrNew) ==
    LET finish(s) ==
            IF s.err # "" THEN DiffThrown(s.err, s.why, s.ops)
            ELSE Diff("", s.ops \o RemoveRun(propPath, s.t + (Len(arrOld) - s.iOld) - 1,
                                             Len(arrOld) - s.iOld)
                                \o TailAdds(propPath, arrNew, s.iNew))
    IN
    finish(DiffObjectLoop(propDesc, propPath, arrOld, arrNew,
                               [iOld |-> 0, iNew |-> 0, t |-> 0, err |-> "",
                                why |-> NoWhy, ops |-> <<>>, left |-> FALSE]))

diffObjectArrays(propDesc, propPath, arrOld, arrNew) ==
    LET finish(s) ==
            IF s.err # "" THEN DiffThrown(s.err, s.why, s.ops)
            ELSE Diff("", s.ops \o RemoveRun(propPath, s.t + (Len(arrOld) - s.iOld) - 1,
                                             Len(arrOld) - s.iOld)
                                \o TailAdds(propPath, arrNew, s.iNew))
    IN
    IF Containers[propDesc.nested].idPropertyName = ""
        THEN DiffThrown("UsageError", Why("no id property", propPath, {}), <<>>)
    ELSE finish(DiffObjectLoop(propDesc, propPath, arrOld, arrNew,
                               [iOld |-> 0, iNew |-> 0, t |-> 0, err |-> "",
                                why |-> NoWhy, ops |-> <<>>, left |-> FALSE]))

\* Object.keys(obj) as a sequence: one fixed order of the keys
RECURSIVE KeySeq(_)
KeySeq(keys) ==
    IF keys = {} THEN <<>>
    ELSE LET k == CHOOSE x \in keys : TRUE IN <<k>> \o KeySeq(keys \ {k})

\* str.replace(/[~/]/g, m => (m === '~' ? '~0' : '~1')), on the keys of the
\* model: "a/b" and "m~n" hold a character to escape, the others do not
ptrSafe(str) ==
    CASE str = "a/b" -> "a~1b"
      [] str = "m~n" -> "m~0n"
      [] OTHER -> str

\* the loop of diffMaps over the keys of mapNew; acc = [err, why, ops,
\* keysToRemove]
RECURSIVE DiffMapKeys(_, _, _, _, _, _)
DiffMapKeys(propDesc, propPath, mapOld, mapNew, keys, acc) ==
    LET key == Head(keys)
        valOld == Prop(mapOld, key)
        valNew == Prop(mapNew, key)
        keyPath == Append(propPath, ptrSafe(key))
        next(err, why, ops, keep) ==
            DiffMapKeys(propDesc, propPath, mapOld, mapNew, Tail(keys),
                        [err |-> err, why |-> why, ops |-> acc.ops \o ops,
                         keysToRemove |-> IF keep
                                          THEN acc.keysToRemove
                                          ELSE acc.keysToRemove \ {key}])
        nested(d) == next(d.err, d.why, d.ops, FALSE)
    IN
    IF keys = <<>> \/ acc.err # "" THEN acc
    ELSE IF IsNullish(valNew) THEN next("", NoWhy, <<>>, ~IsNullish(valOld))
    ELSE IF IsNullish(valOld)
        THEN next("", NoWhy, <<ValueDef("add", keyPath, valNew)>>, FALSE)
    ELSE IF propDesc.scalarValueType = "object"
        THEN nested(diffObjects(Containers[propDesc.nested], keyPath, valOld, valNew))
    ELSE IF valNew # valOld
        THEN next("", NoWhy, <<ValueDef("replace", keyPath, valNew)>>, FALSE)
    ELSE next("", NoWhy, <<>>, FALSE)

diffMaps(propDesc, propPath, mapOld, mapNew) ==
    LET removes(removed) ==
            [k \in 1..Len(removed) |-> RemoveDef(Append(propPath, ptrSafe(removed[k])))]
        finish(r) ==
            IF r.err # "" THEN DiffThrown(r.err, r.why, r.ops)
            ELSE Diff("", r.ops \o removes(KeySeq(r.keysToRemove)))
    IN finish(DiffMapKeys(propDesc, propPath, mapOld, mapNew, KeySeq(DOMAIN mapNew.v),
                          [err |-> "", why |-> NoWhy, ops |-> <<>>,
                           keysToRemove |-> DOMAIN mapOld.v]))

\* JavaScript's .length of an array (the old values are taken as valid)
Length(val) == IF val.t = "arr" THEN Len(val.v) ELSE 0

\* DiffProp without the exemption of id properties from removal
DiffProp_RemovesId(container, pathPrefix, objOld, objNew, propName) ==
    LET propDesc == container.props[propName]
        valOld == Prop(objOld, propName)
        valNew == Prop(objNew, propName)
        path == Append(pathPrefix, propName)
        replaceAll == Diff("", <<ValueDef("replace", path, valNew)>>)
        removeAll == Diff("", <<RemoveDef(path)>>)
        nothing == Diff("", <<>>)
    IN
    IF IsNullish(valNew) THEN
        IF ~IsNullish(valOld) THEN removeAll ELSE nothing
    ELSE IF isArray(propDesc) THEN
        IF valNew.t # "arr"
            THEN DiffThrown("SyntaxError", Why("not an array", path, {}), <<>>)
        ELSE IF Len(valNew.v) = 0 THEN
            IF ~IsNullish(valOld) /\ Length(valOld) > 0 THEN removeAll ELSE nothing
        ELSE IF IsNullish(valOld) \/ Length(valOld) = 0 THEN replaceAll
        ELSE IF propDesc.scalarValueType = "object"
            THEN diffObjectArrays(propDesc, path, valOld.v, valNew.v)
        ELSE Diff("", diffValueArrays(path, valOld.v, valNew.v))
    ELSE IF isMap(propDesc) THEN
        IF ~IsObjectLike(valNew)
            THEN DiffThrown("SyntaxError", Why("not an object", path, {}), <<>>)
        ELSE IF NKeys(valNew) = 0 THEN
            IF ~IsNullish(valOld) /\ NKeys(valOld) > 0 THEN removeAll ELSE nothing
        ELSE IF IsNullish(valOld) \/ NKeys(valOld) = 0 THEN replaceAll
        ELSE diffMaps(propDesc, path, valOld, valNew)
    ELSE IF propDesc.scalarValueType = "object" THEN
        IF ~IsObjectLike(valNew)
            THEN DiffThrown("SyntaxError", Why("not an object", path, {}), <<>>)
        ELSE IF IsNullish(valOld) THEN replaceAll
        ELSE diffObjects(Containers[propDesc.nested], path, valOld, valNew)
    ELSE IF valNew # valOld THEN replaceAll
    ELSE nothing

\* the body of the loop of diffObjectProps for one property
DiffProp(container, pathPrefix, objOld, objNew, propName) ==
    LET propDesc == container.props[propName]
        valOld == Prop(objOld, propName)
        valNew == Prop(objNew, propName)
        path == Append(pathPrefix, propName)
        replaceAll == Diff("", <<ValueDef("replace", path, valNew)>>)
        removeAll == Diff("", <<RemoveDef(path)>>)
        nothing == Diff("", <<>>)
    IN
    IF IsNullish(valNew) THEN
        IF ~IsNullish(valOld) /\ ~propDesc.id THEN removeAll ELSE nothing
    ELSE IF isArray(propDesc) THEN
        IF valNew.t # "arr"
            THEN DiffThrown("SyntaxError", Why("not an array", path, {}), <<>>)
        ELSE IF Len(valNew.v) = 0 THEN
            IF ~IsNullish(valOld) /\ Length(valOld) > 0 THEN removeAll ELSE nothing
        ELSE IF IsNullish(valOld) \/ Length(valOld) = 0 THEN replaceAll
        ELSE IF propDesc.scalarValueType = "object"
            THEN diffObjectArrays(propDesc, path, valOld.v, valNew.v)
        ELSE Diff("", diffValueArrays(path, valOld.v, valNew.v))
    ELSE IF isMap(propDesc) THEN
        IF ~IsObjectLike(valNew)
            THEN DiffThrown("SyntaxError", Why("not an object", path, {}), <<>>)
        ELSE IF NKeys(valNew) = 0 THEN
            IF ~IsNullish(valOld) /\ NKeys(valOld) > 0 THEN removeAll ELSE nothing
        ELSE IF IsNullish(valOld) \/ NKeys(valOld) = 0 THEN replaceAll
        ELSE diffMaps(propDesc, path, valOld, valNew)
    ELSE IF propDesc.scalarValueType = "object" THEN
        IF ~IsObjectLike(valNew)
            THEN DiffThrown("SyntaxError", Why("not an object", path, {}), <<>>)
        ELSE IF IsNullish(valOld) THEN replaceAll
        ELSE diffObjects(Containers[propDesc.nested], path, valOld, valNew)
    ELSE IF valNew # valOld THEN replaceAll
    ELSE nothing

\* diffObjectProps from property i of container.allPropertyNames on
RECURSIVE diffObjectProps(_, _, _, _, _, _)
diffObjectProps(container, pathPrefix, objOld, objNew, i, acc) ==
    LET next(d) ==
            diffObjectProps(container, pathPrefix, objOld, objNew, i + 1,
                            DiffThrown(d.err, d.why, acc.ops \o d.ops))
    IN IF i > Len(container.allPropertyNames) \/ acc.err # "" THEN acc
       ELSE next(DiffProp(container, pathPrefix, objOld, objNew,
                          container.allPropertyNames[i]))

diffObjects(container, pathPrefix, objOld, objNew) ==
    LET unrecognizedPropNames ==
            (DOMAIN objNew.v) \ {container.allPropertyNames[i] :
                                    i \in 1..Len(container.allPropertyNames)}
        finish(props) ==
            IF props.err # "" THEN props
            ELSE IF unrecognizedPropNames # {}
                THEN DiffThrown("SyntaxError",
                                Why("unrecognized properties", pathPrefix,
                                    unrecognizedPropNames),
                                props.ops)
            ELSE props
    IN finish(diffObjectProps(container, pathPrefix, objOld, objNew, 1, Diff("", <<>>)))

\* fromDiff(recordTypes, recordTypeName, recOld, recNew)
fromDiff(recordTypeName, old, new) ==
    IF ~hasRecordType(recordTypeName)
        THEN DiffThrown("UsageError", Why("unknown record type", <<>>, {}), <<>>)
    ELSE IF ~IsObjectLike(old)
        THEN DiffThrown("UsageError", Why("original record is not an object", <<>>, {}),
                        <<>>)
    ELSE IF ~IsObjectLike(new)
        THEN DiffThrown("SyntaxError", Why("new record is not an object", <<>>, {}), <<>>)
    ELSE diffObjects(Containers[recordTypeName], <<>>, old, new)

(***************************************************************************)
(* Inputs.  Records of type Record1, operation values, pointer strings     *)
(* and patch specifications the caller may pass.                           *)
(***************************************************************************)
MaxRounds == 2      \* apply calls made with one patch object
MaxPatchLen == 3    \* operations in a patch specification of several operations
MaxArrayLen == 3    \* elements of a simple value array handed to fromDiff
MaxObjArrayLen == 2 \* elements of a nested object array handed to fromDiff

Elem(id, prop1) == Obj("id" :> Num(id) @@ "prop1" :> Str(prop1))
P1(prop1) == Obj("prop1" :> Str(prop1))

\* a record with every property set
RecFull ==
    Obj("id" :> Num(1)
        @@ "simpleProp" :> Str("A")
        @@ "optionalSimpleProp" :> Str("A")
        @@ "simpleArrayProp" :> Arr(<<Str("A"), Str("B")>>)
        @@ "simpleMapProp" :> Obj("k1" :> Str("A"))
        @@ "nestedObjProp" :> P1("A")
        @@ "nestedObjArrayProp" :> Arr(<<Elem(1, "A")>>)
        @@ "nestedObjMapProp" :> Obj("k1" :> P1("A"))
        @@ "optionalObjProp" :> Obj("prop1" :> Str("A") @@ "inner" :> P1("A")))

\* a record without the optional properties
RecBare ==
    Obj("id" :> Num(2)
        @@ "simpleProp" :> Str("B")
        @@ "simpleArrayProp" :> Arr(<<Str("B")>>)
        @@ "simpleMapProp" :> Obj("k2" :> Str("B"))
        @@ "nestedObjProp" :> P1("B")
        @@ "nestedObjArrayProp" :> Arr(<<Elem(2, "B")>>)
        @@ "nestedObjMapProp" :> Obj("k2" :> P1("B")))

Records == {RecFull, RecBare}

Values ==
    {UNDEF, NULL, Str("A"), Str("B"), Num(1),
     Arr(<<>>), Arr(<<Str("A"), Str("B")>>), Arr(<<Str("B")>>),
     Obj("k1" :> Str("A")), P1("A"), P1("B"),
     Elem(1, "A"), Arr(<<Elem(1, "A")>>), Obj("k1" :> P1("A")),
     Obj("prop1" :> Str("A") @@ "inner" :> P1("A"))}

Paths ==
    {<<>>, <<"nosuch">>, <<"id">>, <<"simpleProp">>, <<"optionalSimpleProp">>,
     <<"simpleArrayProp">>, <<"simpleArrayProp", "0">>, <<"simpleArrayProp", "1">>,
     <<"simpleArrayProp", "5">>, <<"simpleArrayProp", "-">>,
     <<"simpleMapProp">>, <<"simpleMapProp", "k1">>, <<"simpleMapProp", "k2">>,
     <<"nestedObjProp">>, <<"nestedObjProp", "prop1">>,
     <<"nestedObjArrayProp">>, <<"nestedObjArrayProp", "0">>,
     <<"nestedObjArrayProp", "-">>, <<"nestedObjArrayProp", "0", "prop1">>,
     <<"nestedObjArrayProp", "0", "id">>,
     <<"nestedObjMapProp">>, <<"nestedObjMapProp", "k1">>,
     <<"nestedObjMapProp", "k1", "prop1">>,
     <<"optionalObjProp">>, <<"optionalObjProp", "inner">>,
     <<"optionalObjProp", "inner", "prop1">>, <<"optionalObjProp", "inner", "deep">>}

ValueOps == {ValueDef(op, path, value) :
                op \in {"add", "replace", "test"}, path \in Paths, value \in Values}

RemoveOps == {RemoveDef(path) : path \in Paths}

FromOps == {OpDef(op, path, UNDEF, from, <<>>) :
               op \in {"move", "copy"}, path \in Paths, from \in Paths}

\* nested patches of merge operations
NestedPatches ==
    {<<ValueDef("replace", <<"nestedObjProp", "prop1">>, Str("B")),
       ValueDef("test", <<"simpleProp">>, Str("A")),
       ValueDef("replace", <<"optionalSimpleProp">>, Str("B"))>>,
     <<ValueDef("test", <<"nestedObjProp", "prop1">>, Str("A")),
       ValueDef("add", <<"simpleArrayProp", "-">>, Str("A"))>>,
     <<>>}

MergeOps == {OpDef("merge", path, value, <<>>, nested) :
                path \in {<<"nestedObjProp">>, <<"nestedObjMapProp", "k1">>,
                          <<"simpleMapProp">>, <<"id">>},
                value \in {P1("A"), Obj("k1" :> Str("A"))},
                nested \in NestedPatches}

\* whole arrays and maps that hold a null element
NullElementOps ==
    {ValueDef(op, pv[1], pv[2]) :
        op \in {"add", "replace", "test"},
        pv \in {<<<<"simpleArrayProp">>, Arr(<<Str("A"), NULL>>)>>,
                <<<<"simpleMapProp">>, Obj("k1" :> NULL)>>,
                <<<<"numberArrayProp">>, Arr(<<Num(1), NULL>>)>>,
                <<<<"numberArrayProp">>, Arr(<<Num(1)>>)>>,
                <<<<"nestedObjArrayProp">>, Arr(<<Elem(1, "A"), NULL>>)>>,
                <<<<"nestedObjMapProp">>, Obj("k1" :> NULL)>>}}

SingleOps ==
    ValueOps \cup RemoveOps \cup FromOps \cup MergeOps \cup NullElementOps
    \cup {OpDef("nop", <<"simpleProp">>, UNDEF, <<>>, <<>>)}

\* the operations that patches of several operations are made of
SeqOps ==
    {ValueDef("add", <<"simpleArrayProp">>, Arr(<<Str("A")>>)),
     ValueDef("add", <<"simpleArrayProp", "-">>, Str("A")),
     ValueDef("replace", <<"simpleProp">>, Str("B")),
     ValueDef("test", <<"simpleProp">>, Str("A")),
     ValueDef("test", <<"simpleArrayProp">>, Arr(<<Str("A"), Str("B")>>)),
     RemoveDef(<<"simpleArrayProp", "0">>),
     ValueDef("replace", <<"id">>, Num(1)),
     OpDef("merge", <<"nestedObjProp">>, P1("A"), <<>>,
           <<ValueDef("replace", <<"nestedObjProp", "prop1">>, Str("B")),
             ValueDef("test", <<"simpleProp">>, Str("A")),
             ValueDef("replace", <<"optionalSimpleProp">>, Str("B"))>>),
     OpDef("move", <<"nestedObjArrayProp", "0", "prop1">>, UNDEF,
           <<"nestedObjArrayProp", "0">>, <<>>)}

\* a copy of a nested object and an operation below the copy
CopySpecs ==
    {<<OpDef("copy", <<"nestedObjMapProp", "k2">>, UNDEF, <<"nestedObjProp">>, <<>>),
       ValueDef("replace", <<"nestedObjMapProp", "k2", "prop1">>, Str("B"))>>,
     <<OpDef("copy", <<"nestedObjProp">>, UNDEF, <<"nestedObjMapProp", "k1">>, <<>>),
       ValueDef("add", <<"nestedObjProp", "prop1">>, Str("B"))>>,
     <<OpDef("copy", <<"nestedObjArrayProp", "-">>, UNDEF,
             <<"nestedObjArrayProp", "0">>, <<>>),
       ValueDef("replace", <<"nestedObjArrayProp", "1", "prop1">>, Str("B"))>>,
     <<OpDef("copy", <<"nestedObjMapProp", "k2">>, UNDEF, <<"nestedObjProp">>, <<>>),
       RemoveDef(<<"nestedObjMapProp", "k2">>)>>}

PatchSpecs ==
    {<<>>} \cup {<<d>> : d \in SingleOps}
    \cup UNION {[1..n -> SeqOps] : n \in 2..MaxPatchLen}
    \cup CopySpecs

\* the record of the differ's tests, with the two arrays under comparison
DiffRecord(simpleArray, objArray) ==
    Obj("id" :> Num(1)
        @@ "simpleProp" :> Str("A")
        @@ "simpleArrayProp" :> Arr(simpleArray)
        @@ "nestedObjProp" :> P1("A")
        @@ "nestedObjArrayProp" :> Arr(objArray))

SeqsUpTo(S, n) == UNION {[1..k -> S] : k \in 1..n}

ValueArrays == SeqsUpTo({Str("A"), Str("B"), Str("C")}, MaxArrayLen)

DistinctIds(arr) ==
    \A i, j \in 1..Len(arr) :
        (i # j /\ arr[i].v["id"] # Num(0)) => arr[i].v["id"] # arr[j].v["id"]

\* old elements carry ids 1..3; id 0 marks a new element
ObjArraysOld ==
    {a \in SeqsUpTo({Elem(id, p) : id \in 1..3, p \in {"A", "B"}}, MaxObjArrayLen) :
        DistinctIds(a)}

ObjArraysNew ==
    {a \in SeqsUpTo({Elem(id, p) : id \in 0..3, p \in {"A", "B"}}, MaxObjArrayLen) :
        DistinctIds(a)}

\* the record of the differ's tests with a simple value map
DiffMapRecord(simpleMap) ==
    WithProp(DiffRecord(<<Str("A")>>, <<Elem(1, "A")>>), "simpleMapProp", Obj(simpleMap))

MapKeys == {"k1", "a/b", "m~n"}

SimpleMaps ==
    UNION {[keys -> {Str("A"), Str("B")}] : keys \in (SUBSET MapKeys) \ {{}}}

\* new records made of an old one: some of its properties are set anew
\* (deleted when the new value is undefined)
MaxEdits == 2       \* properties in which the new record differs from the old

Edit(name, value) == [name |-> name, value |-> value]

\* o with the undeclared property extra
Extra(o, extra) == WithProp(o, extra, Str("A"))

Edits ==
    {Edit("x", Str("A")),
     Edit("nestedObjProp", Extra(P1("A"), "y")), Edit("nestedObjProp", P1("B")),
     Edit("nestedObjArrayProp", Arr(<<Extra(Elem(1, "A"), "z")>>)),
     Edit("nestedObjArrayProp", Arr(<<Extra(Elem(2, "B"), "z")>>)),
     Edit("nestedObjArrayProp", Arr(<<Elem(3, "A"), Extra(Elem(1, "A"), "z")>>)),
     Edit("nestedObjArrayProp",
          Arr(<<Obj("id" :> Num(1) @@ "prop1" :> Str("B")
                    @@ "prop2" :> Str("B") @@ "prop3" :> Str("B"))>>)),
     Edit("nestedObjMapProp", Obj("k1" :> Extra(P1("A"), "w"))),
     Edit("optionalObjProp",
          Obj("prop1" :> Str("A") @@ "inner" :> Extra(P1("A"), "v"))),
     Edit("simpleArrayProp", Str("A"))}
    \cup {Edit(name, value) : name \in {"simpleProp", "optionalSimpleProp"},
                              value \in {Str("A"), Str("B"), NULL, UNDEF}}
    \cup {Edit("id", value) : value \in {Num(1), Num(2), NULL, UNDEF}}
    \cup {Edit("noIdArrayProp", value) :
            value \in {Arr(<<P1("B")>>), Arr(<<P1("A"), P1("B")>>), Arr(<<>>), UNDEF}}

EditSets ==
    {E \in SUBSET Edits :
        /\ Cardinality(E) <= MaxEdits
        /\ \A a, b \in E : a.name = b.name => a = b}

Edited(record, E) ==
    LET valueOf(name) ==
            IF \E e \in E : e.name = name
            THEN (CHOOSE e \in E : e.name = name).value
            ELSE record.v[name]
        names == ((DOMAIN record.v) \cup {e.name : e \in E})
                 \ {e.name : e \in {d \in E : d.value = UNDEF}}
    IN Obj([name \in names |-> valueOf(name)])

\* the old records: those of the patch tests, with and without an array of
\* nested objects that have no id property
DiffOlds ==
    Records \cup {WithProp(RecFull, "noIdArrayProp", Arr(<<P1("A")>>)),
                  WithProp(RecBare, "noIdArrayProp", Arr(<<>>))}

EditPairs == {<<old, Edited(old, E)>> : old \in DiffOlds, E \in EditSets}

DiffPairs ==
    {<<DiffRecord(a, <<Elem(1, "A")>>), DiffRecord(b, <<Elem(1, "A")>>)>> :
        a \in ValueArrays, b \in ValueArrays}
    \cup {<<DiffRecord(<<Str("A")>>, a), DiffRecord(<<Str("A")>>, b)>> :
            a \in ObjArraysOld, b \in ObjArraysNew}
    \cup {<<DiffMapRecord(a), DiffMapRecord(b)>> : a \in SimpleMaps, b \in SimpleMaps}
    \cup EditPairs

\* the arguments of build: record type names, and patch arguments that are
\* not arrays next to arrays with no, a valid and an invalid operation
TypeNames == {RecordTypeName, "NoSuchType"}

PatchArgs ==
    {UNDEF, NULL, Str("A"), Obj("op" :> Str("remove") @@ "path" :> Str("A")),
     Arr(<<>>), Arr(<<ValueDef("replace", <<"simpleProp">>, Str("B"))>>),
     Arr(<<RemoveDef(<<"nosuch">>)>>)}

\* properties of a merge patch for Record1, with null, scalar and array
\* values and nested merge patches one and two levels deep
MaxMergeKeys == 2   \* properties of the merge patch handed to buildMerge

MergeEntries ==
    {Entry("simpleProp", Str("B")), Entry("simpleProp", NULL),
     Entry("optionalSimpleProp", Str("B")), Entry("optionalSimpleProp", NULL),
     Entry("simpleArrayProp", Arr(<<Str("A")>>)),
     Entry("nestedObjProp", MObj(<<Entry("prop1", Str("B"))>>)),
     Entry("nestedObjProp", MObj(<<Entry("prop1", NULL)>>)),
     Entry("simpleMapProp", MObj(<<Entry("k1", Str("B"))>>)),
     Entry("simpleMapProp", MObj(<<Entry("a/b", Str("B"))>>)),
     Entry("simpleMapProp", MObj(<<Entry("k2", NULL), Entry("k1", Str("A"))>>)),
     Entry("nestedObjMapProp",
           MObj(<<Entry("k1", MObj(<<Entry("prop1", Str("B"))>>))>>))}

DistinctKeys(entries) ==
    \A i, j \in 1..Len(entries) : i # j => entries[i].k # entries[j].k

MergePatches ==
    {NULL, Str("A")}
    \cup {MObj(entries) : entries \in {e \in SeqsUpTo(MergeEntries, MaxMergeKeys) :
                                           DistinctKeys(e)}}

(***************************************************************************)
(* The state machine.  A caller either passes a patch specification to     *)
(* build (Init), takes it from fromDiff (InitDiff, FromDiff) or passes a   *)
(* merge patch to buildMerge (InitMerge, BuildMerge), and then applies the *)
(* patch object to its record, up to MaxRounds times.                      *)
(***************************************************************************)
NoCall == [result |-> "none", events |-> <<>>, handlers |-> "none"]

StartArgs(old, new, typeName, patchArg, ph, merge) ==
    /\ recOld = old
    /\ recNew = new
    /\ buildArgs = [recordTypeName |-> typeName, patch |-> patchArg]
    /\ patchSpec = IF patchArg.t = "arr" THEN patchArg.v ELSE <<>>
    /\ phase = ph
    /\ patch = NoPatch
    /\ rec = old
    /\ recBefore = old
    /\ handlers = "none"
    /\ result = "none"
    /\ events = <<>>
    /\ executed = <<>>
    /\ round = 0
    /\ prev = NoCall
    /\ diffErr = ""
    /\ failedTest = <<>>
    /\ mergePatch = merge
    /\ heap = [vals |-> {}, alias |-> {}, before |-> NoHeap]

StartWith(old, new, spec, ph, merge) ==
    StartArgs(old, new, RecordTypeName, Arr(spec), ph, merge)

Start(old, new, spec, ph) == StartWith(old, new, spec, ph, UNDEF)

Init ==
    \E r \in Records :
        \/ \E spec \in PatchSpecs : Start(r, r, spec, "spec")
        \/ \E typeName \in TypeNames, patchArg \in PatchArgs :
                StartArgs(r, r, typeName, patchArg, "spec", UNDEF)

InitDiff == \E pair \in DiffPairs : Start(pair[1], pair[2], <<>>, "init")

InitMerge ==
    \E r \in Records, merge \in MergePatches : StartWith(r, r, <<>>, "merge", merge)

\* patch = patches.buildMerge(recordTypes, 'Record1', mergePatch); patchSpec
\* keeps the JSON patch that buildMerge hands to build
BuildMerge ==
    /\ phase = "merge"
    /\ patchSpec' = IF mergePatch.t = "mobj" THEN buildMergeLevel(<<>>, mergePatch.v)
                    ELSE <<>>
    /\ patch' = buildMerge(RecordTypeName, mergePatch)
    /\ phase' = "built"
    /\ UNCHANGED <<recOld, recNew, rec, recBefore, handlers, result, events,
                   executed, round, prev, diffErr, failedTest, mergePatch, heap,
                   buildArgs>>

\* patchSpec = patches.fromDiff(recordTypes, 'Record1', recOld, recNew)
FromDiff ==
    /\ phase = "init"
    /\ LET d == fromDiff(RecordTypeName, recOld, recNew) IN
        /\ diffErr' = d.err
        /\ patchSpec' = IF d.err = "" THEN d.ops ELSE <<>>
        /\ phase' = IF d.err = "" THEN "spec" ELSE "failed"
        /\ buildArgs' = [buildArgs EXCEPT !.patch = Arr(IF d.err = "" THEN d.ops ELSE <<>>)]
    /\ UNCHANGED <<recOld, recNew, patch, rec, recBefore, handlers, result, events,
                   executed, round, prev, failedTest, mergePatch, heap>>

\* patch = patches.build(recordTypes, 'Record1', patchSpec)
Build ==
    /\ phase = "spec"
    /\ patch' = build(buildArgs.recordTypeName, buildArgs.patch)
    /\ phase' = "built"
    /\ UNCHANGED <<recOld, recNew, patchSpec, rec, recBefore, handlers, result,
                   events, executed, round, prev, diffErr, failedTest, mergePatch,
                   heap, buildArgs>>

\* the values of the patch's operations when an apply call starts: a fresh
\* copy of a record holds none of them
HeapFor(fresh) == [vals |-> heap.vals, alias |-> IF fresh THEN {} ELSE heap.alias]

\* patch.apply(rec) or patch.apply(rec, handlers), where rec is the record
\* patched so far or a fresh copy of recOld
Apply ==
    /\ phase \in {"built", "applied"}
    /\ patch.err = ""
    /\ round < MaxRounds
    /\ \E h \in HandlerKinds, fresh \in BOOLEAN :
        LET st == PatchApplyIn(patch.ops, IF fresh THEN recOld ELSE rec, h,
                               HeapFor(fresh)) IN
        /\ handlers' = h
        /\ rec' = st.rec
        /\ result' = st.result
        /\ events' = st.events
        /\ executed' = st.executed
        /\ failedTest' = st.failedTest
        /\ recBefore' = IF fresh THEN recOld ELSE rec
        /\ heap' = [vals |-> st.vals, alias |-> st.alias, before |-> HeapFor(fresh)]
    /\ prev' = [result |-> result, events |-> events, handlers |-> handlers]
    /\ round' = round + 1
    /\ phase' = "applied"
    /\ UNCHANGED <<recOld, recNew, patchSpec, patch, diffErr, mergePatch, buildArgs>>

Next == Build \/ Apply

Spec == Init /\ [][Next]_vars

NextDiff == FromDiff \/ Build \/ Apply

SpecDiff == InitDiff /\ [][NextDiff]_vars

NextMerge == BuildMerge \/ Apply

SpecMerge == InitMerge /\ [][NextMerge]_vars

(***************************************************************************)
(* Properties.                                                             *)
(***************************************************************************)
Applied == phase = "applied"
SingleOp == Len(patchSpec) = 1
TheDef == patchSpec[1]
TheOp == patch.ops[1]

\* the value at the target of the single operation when the call started
Current == getValue(TheOp.pathPtr, recBefore)

\* the two records handed to fromDiff differ in simpleArrayProp at most
ValueArraysCase ==
    /\ recOld.v["nestedObjArrayProp"] = recNew.v["nestedObjArrayProp"]
    /\ Prop(recOld, "simpleMapProp") = Prop(recNew, "simpleMapProp")

\* the two records handed to fromDiff differ in nestedObjArrayProp at most
ObjectArraysCase ==
    /\ recOld.v["simpleArrayProp"] = recNew.v["simpleArrayProp"]
    /\ Prop(recOld, "simpleMapProp") = Prop(recNew, "simpleMapProp")

OldItems == recOld.v["nestedObjArrayProp"].v
NewItems == recNew.v["nestedObjArrayProp"].v

\* C1: for two non-empty simple value arrays in the same property of two
\* otherwise equal records, fromDiff, build and apply to a copy of the old
\* record complete without error and leave the copy equal to the new record.
C1_ValueArrayRoundTrip ==
    ValueArraysCase =>
        /\ phase # "failed"
        /\ phase = "built" => patch.err = ""
        /\ (Applied /\ round = 1) => (result = "true" /\ rec = recNew)

\* C2: for two non-empty nested object arrays, the old one with distinct
\* ids, applying the patch built from fromDiff to a copy of the old record
\* leaves the copy equal to the new record.  Stated for the calls that pass
\* a handlers object.
C2_ObjectArrayRoundTrip ==
    (ObjectArraysCase /\ Applied /\ round = 1 /\ handlers # "absent")
        => rec = recNew

\* C3: every old element whose id also occurs in the new array is diffed
\* field by field against its counterpart, however the pair was aligned: a
\* changed prop1 of a matched element yields a nested replace of prop1 with
\* the new value.
C3_MatchedPairsDiffed ==
    (ObjectArraysCase /\ phase \in {"spec", "built", "applied"}) =>
        \A i \in 1..Len(OldItems), j \in 1..Len(NewItems) :
            (/\ OldItems[i].v["id"] = NewItems[j].v["id"]
             /\ OldItems[i].v["prop1"] # NewItems[j].v["prop1"])
            => \E k \in 1..Len(patchSpec) :
                /\ patchSpec[k].op = "replace"
                /\ Len(patchSpec[k].path) = 3
                /\ patchSpec[k].path[1] = "nestedObjArrayProp"
                /\ patchSpec[k].path[3] = "prop1"
                /\ patchSpec[k].value = NewItems[j].v["prop1"]

\* C4: apply(record) without handlers behaves exactly like apply(record, {}):
\* the same record, the same outcome.
C4_HandlersOptional ==
    (Applied /\ handlers = "absent") =>
        LET withEmpty == PatchApply(patch.ops, recBefore, "empty") IN
        /\ result = withEmpty.result
        /\ rec = withEmpty.rec

\* the ids of the operations of a patch in the order of the list, the
\* operations of a nested patch after their merge operation
RECURSIVE FlatIds(_)
FlatIds(ops) ==
    IF ops = <<>> THEN <<>>
    ELSE <<Head(ops).id>> \o FlatIds(Head(ops).patchOps) \o FlatIds(Tail(ops))

\* the operations that come before the operation with the given id
RECURSIVE OpsBefore(_, _)
OpsBefore(ops, id) ==
    SubSeq(ops, 1, Head(id) - 1)
    \o (IF Len(id) = 1 THEN <<>> ELSE OpsBefore(ops[Head(id)].patchOps, Tail(id)))

\* C5: operations are applied strictly in list order, and when a test
\* operation fails, at the top level or in the nested patch of a merge,
\* apply returns false at once: no later operation is entered, no later
\* handler is called, and the record keeps what the operations before the
\* test did to it.
C5_OrderAndFailedTest ==
    Applied =>
        /\ IsPrefix(executed, FlatIds(patch.ops))
        /\ failedTest # <<>> =>
            /\ result = "false"
            /\ executed[Len(executed)] = failedTest
            /\ handlers = "full" =>
                /\ events # <<>>
                /\ events[Len(events)].h = "onTest"
                /\ ~events[Len(events)].passed
            /\ rec = PatchApply(OpsBefore(patch.ops, failedTest), recBefore, "empty").rec

\* C5 for the calls that pass a handlers object
C5_WithHandlers == handlers # "absent" => C5_OrderAndFailedTest

\* a test failed inside the nested patch of a merge after an operation of
\* that patch had changed the record
C5_NestedFailure ==
    /\ Applied
    /\ Len(failedTest) = 2
    /\ result = "false"
    /\ rec # recBefore

\* C6: a test operation passes if and only if the value at its target
\* equals the supplied value, for every kind of target.  Stated for the
\* calls that pass a handlers object.
C6_TestIffEqual ==
    (/\ Applied /\ round = 1 /\ handlers # "absent"
     /\ SingleOp /\ TheDef.op = "test" /\ Current.err = "")
        => (result = "true" <=> Current.value = TheDef.value)

\* C7: applying an add or a replace a second time to the record its first
\* application produced changes nothing and calls no handler, for every
\* target the builder accepts.  Stated for the calls that pass a handlers
\* object.
C7_Idempotence ==
    (/\ Applied /\ round = 2 /\ SingleOp /\ TheDef.op \in {"add", "replace"}
     /\ prev.result = "true" /\ prev.handlers # "absent" /\ handlers # "absent")
        => (rec = recBefore /\ events = <<>>)

\* the target is a scalar property or an element of a simple value array or map
ScalarTarget(ptr) ==
    /\ ptr.propDesc.scalarValueType # "object"
    /\ isScalar(ptr.propDesc) \/ ptr.collectionElement

\* an add or a replace of the value the target already holds
SameValueCase ==
    /\ Applied /\ round = 1 /\ SingleOp /\ TheDef.op \in {"add", "replace"}
    /\ ScalarTarget(TheOp.pathPtr)
    /\ Current.err = "" /\ Current.value = TheDef.value

SelfMove == Applied /\ SingleOp /\ TheDef.op = "move" /\ TheDef.path = TheDef.from

\* C9: a move whose source and destination pointer strings are identical
\* leaves the record unchanged, calls no handler and returns true, whatever
\* the record holds there.
C9_SelfMove == SelfMove => (rec = recBefore /\ events = <<>> /\ result = "true")

\* a self move was applied with all handlers set where the record holds a value
C9_Witness ==
    /\ SelfMove
    /\ handlers = "full"
    /\ Current.err = ""
    /\ ~IsNullish(Current.value)

ChildMoveReason == "may not move location into one of its children."

IntoDescendant(def) == IsProperPrefix(def.from, def.path)

\* C10: building a patch with a move whose destination is a descendant of
\* its source fails with SyntaxError and gives no patch; the same pair in a
\* copy is not rejected for that reason.
C10_MoveIntoDescendant ==
    phase \in {"built", "applied"} =>
        /\ (\E k \in 1..Len(patchSpec) :
                patchSpec[k].op = "move" /\ IntoDescendant(patchSpec[k]))
            => (patch.err = "SyntaxError" /\ patch.ops = <<>>)
        /\ (SingleOp /\ TheDef.op = "copy" /\ IntoDescendant(TheDef))
            => patch.reason # ChildMoveReason

\* the operations whose target pointer is resolved for a SET use
SetOps == {"add", "replace", "merge", "move", "copy"}

\* the pointer the target of an operation definition resolves to
TargetPtr(def) == ParsePointer(def.path, def.op \in {"merge", "remove", "test"})

\* the target of the definition resolves to a property that is not modifiable
NonModifiableTarget(def) ==
    /\ def.op \in SetOps
    /\ TargetPtr(def).err = ""
    /\ ~isRoot(TargetPtr(def))
    /\ ~TargetPtr(def).propDesc.modifiable

Built == phase \in {"built", "applied"}

\* the operations before operation k build on their own
PrefixBuilds(k) == build(RecordTypeName, Arr(SubSeq(patchSpec, 1, k - 1))).err = ""

RequiredReason == "may not remove a required property"
NonModifiableReason == "may not update non-modifiable property"

\* the pointer the source of a move or copy definition resolves to
SourcePtr(def) == ParsePointer(def.from, TRUE)

\* the pointer is for a whole property that is not optional
WholeRequired(ptr) ==
    /\ ptr.err = ""
    /\ ~isRoot(ptr)
    /\ ~ptr.collectionElement
    /\ ~ptr.propDesc.optional

\* the pointer is for an element of an array or map
IsElement(ptr) == ptr.err = "" /\ ~isRoot(ptr) /\ ptr.collectionElement

\* the build of the single operation threw the error of an endless recursion
StackExhausted == patch.err = "RangeError"

\* what C12 says of the patch built from a single operation
EraseAndRead ==
    /\ (TheDef.op = "remove" /\ WholeRequired(TargetPtr(TheDef)))
        => (patch.err = "SyntaxError" /\ patch.ops = <<>>)
    /\ (TheDef.op = "move" /\ WholeRequired(SourcePtr(TheDef)))
        => (patch.err = "SyntaxError" /\ patch.ops = <<>>)
    /\ (TheDef.op = "remove" /\ IsElement(TargetPtr(TheDef)))
        => patch.reason # RequiredReason
    /\ (TheDef.op = "move" /\ IsElement(SourcePtr(TheDef)))
        => patch.reason # RequiredReason
    /\ TheDef.op = "test"
        => patch.reason \notin {RequiredReason, NonModifiableReason}
    /\ TheDef.op = "copy" => patch.reason # RequiredReason
    /\ (TheDef.op = "copy" /\ ~NonModifiableTarget(TheDef))
        => patch.reason # NonModifiableReason

\* C12: building fails with SyntaxError when the target of a remove or the
\* source of a move is a whole property that is not optional, and is not
\* refused for that when it is an element of an array or map; a test target
\* and a copy source are never refused for being required or non-modifiable.
C12_EraseAndRead == (Built /\ SingleOp) => EraseAndRead

\* C12 for the builds that do not end in an endless recursion
C12_ExceptNesting == (Built /\ SingleOp /\ ~StackExhausted) => EraseAndRead

\* the build of a move was refused because its source is a required property
C12_RequiredSource ==
    /\ Built /\ SingleOp /\ TheDef.op = "move"
    /\ WholeRequired(SourcePtr(TheDef))
    /\ patch.reason = RequiredReason

\* the pointer at which a remove, move or copy needs an existing value
NeededPtr(op) == IF op.op = "remove" THEN op.pathPtr ELSE op.fromPtr

\* the operation needs an element of an array or map that the record lacks
ElementMissing(op, record) ==
    /\ op.op \in {"remove", "move", "copy"}
    /\ NeededPtr(op).collectionElement
    /\ getValue(NeededPtr(op), record) = Nav("", record, UNDEF)

IsSelfMove(op) ==
    op.op = "move" /\ PointerString(op.pathPtr) = PointerString(op.fromPtr)

\* the call ended with DataError where the operations before had brought it
EndedAt(before) ==
    /\ result = "DataError"
    /\ rec = before.rec
    /\ events = before.events

\* apply as far as the operations before operation k of the patch
BeforeOp(k) ==
    PatchApplyIn(SubSeq(patch.ops, 1, k - 1), recBefore, handlers, heap.before)

\* C13 as stated: a remove, a move or a copy that finds no element at the
\* array index or map key it needs raises DataError, calls no handler and
\* leaves the record as the operations before it left it.
C13_AsStated ==
    Applied =>
        \A k \in 1..Len(patch.ops) :
            (BeforeOp(k).result = "true" /\ ElementMissing(patch.ops[k], BeforeOp(k).rec))
                => EndedAt(BeforeOp(k))

\* C13: the same for every remove and copy, and for every move whose source
\* and destination pointers differ; a move of a location to itself returns
\* true without looking at the record.
C13_MissingElement ==
    Applied =>
        \A k \in 1..Len(patch.ops) :
            (/\ BeforeOp(k).result = "true"
             /\ ElementMissing(patch.ops[k], BeforeOp(k).rec)
             /\ ~IsSelfMove(patch.ops[k]))
                => EndedAt(BeforeOp(k))

\* the second operation found the array element it removes missing after the
\* first had removed one and reported it
C13_Witness ==
    /\ Applied
    /\ Len(patch.ops) >= 2
    /\ BeforeOp(2).result = "true"
    /\ BeforeOp(2).events # <<>>
    /\ BeforeOp(2).rec # recBefore
    /\ ElementMissing(patch.ops[2], BeforeOp(2).rec)
    /\ result = "DataError"

\* fromDiff has returned the patch specification of the two records
Diffed == phase \in {"spec", "built", "applied"} /\ diffErr = ""

OldArr == recOld.v["simpleArrayProp"].v
NewArr == recNew.v["simpleArrayProp"].v

\* the new array is the old one without the k elements from index s on
RunDeleted(s, k) ==
    /\ s + k <= Len(OldArr)
    /\ NewArr = SubSeq(OldArr, 1, s) \o SubSeq(OldArr, s + k + 1, Len(OldArr))

\* a run of k elements was deleted and the element after the run is kept
RunDeletedInside(s, k) == RunDeleted(s, k) /\ s + k < Len(OldArr)

RunStarts == 0..(MaxArrayLen + 1)
RunLengths == 1..(MaxArrayLen + 1)

ArrayRemove(i) == RemoveDef(<<"simpleArrayProp", IndexToken(i)>>)

\* C14 as stated: when the new simple value array is the old one without one
\* run of k elements, the element after the run kept, fromDiff gives exactly
\* k remove operations and every one of them addresses the index where the
\* run starts.
C14_AsStated ==
    (/\ Diffed /\ ValueArraysCase
     /\ \E s \in RunStarts, k \in RunLengths : RunDeletedInside(s, k))
        => \E s \in RunStarts, k \in RunLengths :
                /\ RunDeleted(s, k)
                /\ patchSpec = [j \in 1..k |-> ArrayRemove(s)]

\* no element of the run occurs in the new array at or after the run's start
RunGone(s, k) ==
    \A i \in (s + 1)..(s + k), j \in (s + 1)..Len(NewArr) : OldArr[i] # NewArr[j]

\* C14: when the new simple value array is the old one without one run of k
\* elements, the element after the run is kept and no element of the run
\* occurs in the new array at or after the place of the run, fromDiff gives
\* exactly k remove operations, which address the elements of the run from
\* its last index down to its first.
C14_RunRemoved ==
    (Diffed /\ ValueArraysCase) =>
        \A s \in RunStarts, k \in RunLengths :
            (RunDeletedInside(s, k) /\ RunGone(s, k))
                => patchSpec = [j \in 1..k |-> ArrayRemove(s + k - j)]

\* the first two of three elements were deleted and the patch of the two
\* removes was applied
C14_Witness ==
    /\ Applied /\ Diffed /\ ValueArraysCase
    /\ Len(OldArr) = 3
    /\ RunDeletedInside(0, 2)
    /\ RunGone(0, 2)
    /\ patchSpec = <<ArrayRemove(1), ArrayRemove(0)>>
    /\ handlers = "full"
    /\ rec = recNew

\* no old element from index i on occurs in the new array from index j on
NoAnchor(i, j) ==
    \A a \in (i + 1)..Len(OldArr), b \in (j + 1)..Len(NewArr) : OldArr[a] # NewArr[b]

\* the number of leading elements the two arrays share
CommonPrefix ==
    CHOOSE p \in 0..Min(Len(OldArr), Len(NewArr)) :
        /\ \A q \in 1..p : OldArr[q] = NewArr[q]
        /\ p < Min(Len(OldArr), Len(NewArr)) => OldArr[p + 1] # NewArr[p + 1]

\* the main loop stops at old[i], new[j] with elements left in both arrays
\* and no anchor
StopsAt(i, j) == i < Len(OldArr) /\ j < Len(NewArr) /\ NoAnchor(i, j)

ArrayPath == <<"simpleArrayProp">>

\* the operations for what is left at old[i], new[j]: as many replaces as
\* both arrays have elements left, then the removes of the other old
\* elements from the last down, then the adds of the other new elements at
\* the tail
LeftOps(i, j, nrep) ==
    [k \in 1..nrep |->
        ValueDef("replace", Append(ArrayPath, IndexToken(j + k - 1)), NewArr[j + k])]
    \o [k \in 1..(Len(OldArr) - i - nrep) |-> ArrayRemove(j + Len(OldArr) - i - k)]
    \o [k \in 1..(Len(NewArr) - j - nrep) |->
            ValueDef("add", Append(ArrayPath, "-"), NewArr[j + nrep + k])]

CursorAt(i, j) == [iOld |-> i, iNew |-> j, t |-> j, ops |-> <<>>, left |-> FALSE]

OpsOf(name) == {n \in 1..Len(patchSpec) : patchSpec[n].op = name}

\* C15 as stated: when the diff of two simple value arrays reaches a
\* mismatch with no anchor, every remaining new element is added at the
\* tail pointer, every remaining old element is removed, and no replace is
\* emitted.
C15_AsStated ==
    (Diffed /\ ValueArraysCase /\ StopsAt(CommonPrefix, CommonPrefix)) =>
        /\ OpsOf("replace") = {}
        /\ Cardinality(OpsOf("remove")) = Len(OldArr) - CommonPrefix
        /\ Cardinality(OpsOf("add")) = Len(NewArr) - CommonPrefix
        /\ \A n \in OpsOf("add") : patchSpec[n].path = Append(ArrayPath, "-")

\* C15: when the diff of two simple value arrays reaches a mismatch with no
\* anchor, the remaining elements are paired off from the cursors on and
\* each pair is a replace at its index; the old elements beyond the pairs
\* are removed from the last index down and the new elements beyond the
\* pairs are added at the tail pointer.
C15_NoAnchorTail ==
    (Diffed /\ ValueArraysCase) =>
        /\ \A i \in 0..Len(OldArr), j \in 0..Len(NewArr) :
                StopsAt(i, j) =>
                    DiffValueFrom(ArrayPath, OldArr, NewArr, CursorAt(i, j))
                        = LeftOps(i, j, Min(Len(OldArr) - i, Len(NewArr) - j))
        /\ StopsAt(CommonPrefix, CommonPrefix) =>
                patchSpec = LeftOps(CommonPrefix, CommonPrefix,
                                    Min(Len(OldArr), Len(NewArr)) - CommonPrefix)

\* after a shared first element nothing of the old array recurs: the patch
\* of one replace and one remove was applied and gave the new record
C15_Witness ==
    /\ Applied /\ Diffed /\ ValueArraysCase
    /\ CommonPrefix = 1
    /\ StopsAt(1, 1)
    /\ Len(OldArr) = 3 /\ Len(NewArr) = 2
    /\ Len(patchSpec) = 2
    /\ patchSpec[1].op = "replace" /\ patchSpec[2] = ArrayRemove(2)
    /\ handlers = "full"
    /\ rec = recNew

\* a patch of one merge operation was applied once
MergeCase == Applied /\ round = 1 /\ SingleOp /\ TheDef.op = "merge" /\ Current.err = ""

\* the call ended as the given run of operations ends
EndsLike(st) == result = st.result /\ rec = st.rec /\ events = st.events

\* an add of the merge value at the merge target
AddOfMerge == [TheOp EXCEPT !.op = "add", !.patchOps = <<>>]

\* C16: a merge applied where the target value is absent or null behaves
\* like an add of the merge value at the target: the value is written, one
\* set or insert is reported and apply returns true; where the target value
\* is present only the nested patch is applied.  Stated for the calls that
\* pass a handlers object.
C16_MergeAbsentTarget ==
    (MergeCase /\ handlers # "absent") =>
        IF Truthy(Current.value)
        THEN EndsLike(PatchApply(TheOp.patchOps, recBefore, handlers))
        ELSE /\ EndsLike(PatchApply(<<AddOfMerge>>, recBefore, handlers))
             /\ result = "true"
             /\ getValue(TheOp.pathPtr, rec).value = TheDef.value

\* C16 where the target value is present
C16_PresentTarget ==
    (MergeCase /\ handlers # "absent" /\ Truthy(Current.value))
        => EndsLike(PatchApply(TheOp.patchOps, recBefore, handlers))

\* a merge was applied with all handlers set where the record has no value
\* at the target
C16_AbsentReached ==
    /\ MergeCase
    /\ handlers = "full"
    /\ ~Truthy(Current.value)

\* buildMerge has translated a merge patch object
MergeTranslated == Built /\ mergePatch # UNDEF /\ mergePatch.t = "mobj"

\* ops is the translation of the entries of one level of a merge patch, the
\* path of a key being the pointer below base whose last token is the key
\* in its RFC 6901 form
RECURSIVE Translates(_, _, _)
Translates(base, entries, ops) ==
    /\ Len(ops) = Len(entries)
    /\ \A n \in 1..Len(entries) :
        LET path == Append(base, ptrSafe(entries[n].k))
            mergeVal == entries[n].v
        IN IF mergeVal = NULL THEN ops[n] = RemoveDef(path)
           ELSE IF mergeVal.t = "mobj" THEN
                /\ ops[n].op = "merge"
                /\ ops[n].path = path
                /\ ops[n].value = Plain(mergeVal)
                /\ Translates(path, mergeVal.v, ops[n].patch)
           ELSE ops[n] = ValueDef("replace", path, mergeVal)

\* no key of the merge patch holds a '/' or a '~'
RECURSIVE PlainKeys(_)
PlainKeys(entries) ==
    \A n \in 1..Len(entries) :
        /\ ptrSafe(entries[n].k) = entries[n].k
        /\ entries[n].v.t = "mobj" => PlainKeys(entries[n].v.v)

\* C17: buildMerge translates a merge patch object into an operation list
\* by visiting each key once, in the order of the keys: null gives a remove
\* at the key's path, an array or a scalar a replace with that value, and a
\* nested object one merge operation with that object as its value and the
\* translation of the object below the key's path as its nested patch.
C17_MergeTranslation ==
    MergeTranslated => Translates(<<>>, mergePatch.v, patchSpec)

\* C17 for the merge patches whose keys need no escaping in a pointer
C17_PlainKeys ==
    (MergeTranslated /\ PlainKeys(mergePatch.v))
        => Translates(<<>>, mergePatch.v, patchSpec)

\* a merge patch of two properties, one of them a map with two keys, was
\* translated and built, and the patch applied
C17_TwoLevels ==
    /\ MergeTranslated /\ Applied
    /\ Len(patchSpec) = 2
    /\ \E n \in 1..2 : patchSpec[n].op = "merge" /\ Len(patchSpec[n].patch) = 2
    /\ result = "true"
    /\ rec # recBefore

\* build returned a patch object
PatchBuilt == Built /\ patch.err = ""

\* C18: for every patch built from a valid specification, updatedPropPaths
\* is a subset of involvedPropPaths, the ancestor paths added for operations
\* on nested properties included.
C18_UpdatedSubset ==
    PatchBuilt => patch.updatedPropPaths \subseteq patch.involvedPropPaths

\* C18 without the ancestor paths
C18_ExceptAncestors ==
    PatchBuilt =>
        \A path \in patch.updatedPropPaths \ patch.involvedPropPaths :
            \E k \in 1..Len(patchSpec) :
                IsProperPrefix(path, TargetPtr(patchSpec[k]).propPath)
                \/ (patchSpec[k].op = "move"
                    /\ IsProperPrefix(path, SourcePtr(patchSpec[k]).propPath))
                \/ \E n \in 1..Len(patchSpec[k].patch) :
                       IsProperPrefix(path, TargetPtr(patchSpec[k].patch[n]).propPath)

\* a patch that updates a property of a nested object was built
C18_NestedUpdate ==
    /\ PatchBuilt
    /\ <<"nestedObjProp">> \in patch.updatedPropPaths


(***************************************************************************)
(* C19: the patch is not changed by applying it.                           *)
(***************************************************************************)
\* the last apply call worked on a fresh copy of recOld: a record equal to
\* recOld that held none of the patch's operation values
OnFreshCopy == Applied /\ recBefore = recOld /\ heap.before.alias = {}

\* C19: after any number of apply calls, applying the same patch object to a
\* fresh copy of a record gives the same resulting record, the same events
\* and the same return value as its first application to a copy of that
\* record, which is the application of the patch as build returned it
C19_PatchUnchanged ==
    OnFreshCopy => EndsLike(PatchApply(patch.ops, recOld, handlers))

\* C19: in particular, no apply call changes the value of an operation
C19_ValuesUnchanged ==
    \A k \in 1..Len(patch.ops) : ValueOf(heap.vals, patch.ops[k]) = patch.ops[k].value

\* the case of C19: the second call, on a fresh copy, of a patch that adds a
\* whole array and then an element to that array
C19_ArrayThenElement ==
    /\ OnFreshCopy /\ round = 2 /\ result = "true" /\ Len(patchSpec) = 2
    /\ patchSpec[1] = ValueDef("add", <<"simpleArrayProp">>, Arr(<<Str("A")>>))
    /\ patchSpec[2] = ValueDef("add", <<"simpleArrayProp", "-">>, Str("A"))
    /\ prev.result = "true"

(***************************************************************************)
(* C20: the errors of build for bad arguments.                             *)
(***************************************************************************)
UnknownType == ~hasRecordType(buildArgs.recordTypeName)
NotAnArray == buildArgs.patch.t # "arr"

\* C20: build fails with UsageError when the patch specification is not an
\* array and when the record type name is unknown, and it checks the record
\* type first: with both at fault the error is the one of the unknown type
C20_BuildArguments ==
    Built =>
        /\ UnknownType => (patch.err = "UsageError" /\ patch.reason = "unknown record type")
        /\ NotAnArray => patch.err = "UsageError"

\* the part of C20 that the code keeps: an unknown record type name is a
\* UsageError whatever the patch specification is
C20_TypeFirst ==
    (Built /\ UnknownType) =>
        (patch.err = "UsageError" /\ patch.reason = "unknown record type")

\* the case of C20: build was handed a known type and a specification that is
\* not an array
C20_NotAnArray == Built /\ ~UnknownType /\ NotAnArray

(***************************************************************************)
(* C21: undeclared property names in the new record.                       *)
(***************************************************************************)
\* fromDiff has been called
DiffDone == phase \in {"spec", "failed", "built", "applied"}

Declared(container) ==
    {container.allPropertyNames[i] : i \in 1..Len(container.allPropertyNames)}

\* the sets of undeclared property names, one for each object the diff of
\* old and new reaches that has any: the new object itself, the nested
\* objects present on both sides, the array elements with equal ids and the
\* values of the map keys present on both sides
RECURSIVE UndeclaredIn(_, _, _)
UndeclaredIn(container, old, new) ==
    LET own == (DOMAIN new.v) \ Declared(container)
        below(name) ==
            LET pd == container.props[name]
                vo == Prop(old, name)
                vn == Prop(new, name)
            IN IF pd.scalarValueType # "object" \/ IsNullish(vo) \/ IsNullish(vn)
                  \/ vo.t # vn.t
               THEN {}
               ELSE IF isArray(pd) THEN
                   UNION {UndeclaredIn(Containers[pd.nested], vo.v[i], vn.v[j]) :
                            <<i, j>> \in {q \in (1..Len(vo.v)) \X (1..Len(vn.v)) :
                                            Prop(vo.v[q[1]], "id") = Prop(vn.v[q[2]], "id")}}
               ELSE IF isMap(pd) THEN
                   UNION {UndeclaredIn(Containers[pd.nested], vo.v[k], vn.v[k]) :
                            k \in {c \in (DOMAIN vo.v) \cap (DOMAIN vn.v) :
                                     ~IsNullish(vo.v[c]) /\ ~IsNullish(vn.v[c])}}
               ELSE UndeclaredIn(Containers[pd.nested], vo, vn)
    IN (IF own = {} THEN {} ELSE {own})
       \cup UNION {below(name) : name \in Declared(container) \cap DOMAIN new.v}

Undeclared == UndeclaredIn(Containers[RecordTypeName], recOld, recNew)

TheDiff == fromDiff(RecordTypeName, recOld, recNew)

\* C21: when the new record or a nested object reached by the diff has a
\* property name its schema level does not declare, fromDiff fails with
\* SyntaxError, returns no specification, and the error names the
\* unrecognized properties of such an object
C21_UnrecognizedProperties ==
    (DiffDone /\ Undeclared # {}) =>
        /\ diffErr = "SyntaxError"
        /\ patchSpec = <<>>
        /\ TheDiff.why.kind = "unrecognized properties"
        /\ TheDiff.why.names \in Undeclared

\* the error of fromDiff is the one for unrecognized properties
NamesUnrecognized ==
    /\ DiffDone /\ diffErr = "SyntaxError"
    /\ TheDiff.why.kind = "unrecognized properties"
    /\ TheDiff.why.names \in Undeclared

\* a matched array element with an undeclared property that fromDiff lets
\* pass: the pair was not found at both cursors
C21_SkippedPair ==
    /\ DiffDone /\ Undeclared # {} /\ diffErr = ""
    /\ \E k \in 1..Len(patchSpec) : patchSpec[k].op = "add"

(***************************************************************************)
(* C22: the operations fromDiff emits for a scalar property.               *)
(***************************************************************************)
\* the scalar properties of the record and of its nested object that are
\* not nested objects themselves, as [path, old, new, id]: the path of the
\* property, its two values and whether it is an identity property.  The
\* property of the nested object counts when the diff reaches it.
ScalarProps ==
    {[path |-> <<name>>, old |-> Prop(recOld, name), new |-> Prop(recNew, name),
      id |-> Containers[RecordTypeName].props[name].id] :
        name \in {"id", "simpleProp", "optionalSimpleProp"}}
    \cup (IF /\ Prop(recOld, "nestedObjProp").t = "obj"
             /\ Prop(recNew, "nestedObjProp").t = "obj"
          THEN {[path |-> <<"nestedObjProp", "prop1">>,
                 old |-> Prop(Prop(recOld, "nestedObjProp"), "prop1"),
                 new |-> Prop(Prop(recNew, "nestedObjProp"), "prop1"),
                 id |-> FALSE]}
          ELSE {})

\* the operations of the specification that target path
OpsAt(path) == {k \in 1..Len(patchSpec) : patchSpec[k].path = path}

ReplaceDue(p) == ~IsNullish(p.new) /\ p.new # p.old
RemoveDue(p) == IsNullish(p.new) /\ ~IsNullish(p.old) /\ ~p.id

\* C22: for each scalar property fromDiff emits exactly one replace with the
\* new value iff the new value is non-null and differs from the old one,
\* exactly one remove iff the new value is null or absent, the old one is
\* not and the property is not an identity property, and nothing otherwise
C22_ScalarDiff ==
    Diffed =>
        \A p \in ScalarProps :
            /\ ReplaceDue(p) =>
                  \E k \in OpsAt(p.path) :
                      /\ OpsAt(p.path) = {k}
                      /\ patchSpec[k] = ValueDef("replace", p.path, p.new)
            /\ RemoveDue(p) =>
                  \E k \in OpsAt(p.path) :
                      /\ OpsAt(p.path) = {k}
                      /\ patchSpec[k] = RemoveDef(p.path)
            /\ (~ReplaceDue(p) /\ ~RemoveDue(p)) => OpsAt(p.path) = {}

\* the cases of C22 together: one property replaced, one removed, and the
\* identity property emptied without a remove
C22_Witness ==
    /\ Diffed
    /\ \E p \in ScalarProps : ReplaceDue(p)
    /\ \E p \in ScalarProps : RemoveDue(p) \/ (p.id /\ IsNullish(p.new))
    /\ \E p \in ScalarProps : ~ReplaceDue(p) /\ ~RemoveDue(p)

(***************************************************************************)
(* C23: nested object arrays whose elements have no id property.           *)
(***************************************************************************)
NoIdOld == Prop(recOld, "noIdArrayProp")
NoIdNew == Prop(recNew, "noIdArrayProp")

NonEmptyArray(val) == val.t = "arr" /\ Len(val.v) > 0

\* the properties before noIdArrayProp diff without an error: the two
\* records without that property make fromDiff fail at most for their
\* unrecognized top-level properties, which are looked at last
RestDiffs ==
    LET rest(d) ==
            \/ d.err = ""
            \/ d.why.kind = "unrecognized properties" /\ d.why.at = <<>>
    IN rest(fromDiff(RecordTypeName,
                     Edited(recOld, {Edit("noIdArrayProp", UNDEF)}),
                     Edited(recNew, {Edit("noIdArrayProp", UNDEF)})))

\* C23 as stated: fromDiff fails with UsageError for a nested object array
\* property without id property whenever at least one of its two values is
\* a non-empty array
C23_AsStated ==
    (DiffDone /\ (NonEmptyArray(NoIdOld) \/ NonEmptyArray(NoIdNew)))
        => diffErr = "UsageError"

\* C23 amended: fromDiff fails with UsageError when both values are
\* non-empty arrays and no property before this one has made it fail; when
\* only one of them is a non-empty array no error is raised for the
\* property, which is replaced or removed as a whole
C23_BothNonEmpty ==
    (DiffDone /\ RestDiffs) =>
        /\ (NonEmptyArray(NoIdOld) /\ NonEmptyArray(NoIdNew))
              => (diffErr = "UsageError" /\ TheDiff.why.kind = "no id property")
        /\ (NonEmptyArray(NoIdNew) /\ ~NonEmptyArray(NoIdOld))
              => (/\ diffErr # "UsageError"
                  /\ Diffed => \E k \in 1..Len(patchSpec) :
                        patchSpec[k] = ValueDef("replace", <<"noIdArrayProp">>, NoIdNew))
        /\ (NonEmptyArray(NoIdOld) /\ ~NonEmptyArray(NoIdNew))
              => (/\ diffErr # "UsageError"
                  /\ Diffed => \E k \in 1..Len(patchSpec) :
                        patchSpec[k] = RemoveDef(<<"noIdArrayProp">>))

\* the case of C23: both values are non-empty arrays and fromDiff has thrown
C23_Witness ==
    /\ DiffDone /\ RestDiffs /\ NonEmptyArray(NoIdOld) /\ NonEmptyArray(NoIdNew)
    /\ diffErr = "UsageError"

\* the other case: only the new value is a non-empty array and fromDiff has
\* returned a specification
C23_OneSided == Diffed /\ NonEmptyArray(NoIdNew) /\ ~NonEmptyArray(NoIdOld)

(***************************************************************************)
(* C24: the order of the two halves of a move.                             *)
(***************************************************************************)
\* the last call applied one move whose source and destination differ, and
\* returned true
MovedCase ==
    /\ Applied /\ SingleOp /\ TheDef.op = "move" /\ TheDef.path # TheDef.from
    /\ result = "true"

\* the record of the last call once the source is erased, with the value
\* that was there
Erased == removeValue(TheOp.fromPtr, recBefore)

\* the positions of the handler calls of the last call for pointer ptr
CallsFor(ptr) == {i \in 1..Len(events) : events[i].ptr = ptr}

\* C24: a move with different source and destination erases the value at
\* the source and then adds it at the destination: the record ends as the
\* one with the source erased, or as that one with the erased value added
\* at the destination (the destination index is read against the record
\* after the removal); every handler call for the source precedes every
\* handler call for the destination; the value reported and written for the
\* destination is the one that was erased
C24_EraseThenAdd ==
    MovedCase =>
        /\ Erased.err = ""
        /\ rec # Erased.rec
              => rec = addValue(TheOp.pathPtr, Erased.rec, Erased.value).rec
        /\ \A i \in CallsFor(TheDef.from), j \in CallsFor(TheDef.path) : i < j
        /\ \A i \in CallsFor(TheDef.from) :
              /\ events[i].h \in {"onRemove", "onSet"}
              /\ events[i].h = "onSet" => events[i].newValue = NULL
              /\ events[i].oldValue = Erased.value
        /\ \A j \in CallsFor(TheDef.path) :
              /\ events[j].h \in {"onInsert", "onSet"}
              /\ events[j].newValue = Erased.value
              /\ rec = addValue(TheOp.pathPtr, Erased.rec, Erased.value).rec

\* the case of C24: an element moved to a later index of its own array, with
\* a handler call for either half
C24_Witness ==
    /\ MovedCase /\ handlers = "full"
    /\ TheDef.from = <<"simpleArrayProp", "0">>
    /\ TheDef.path = <<"simpleArrayProp", "1">>
    /\ recBefore = RecFull
    /\ rec.v["simpleArrayProp"] = Arr(<<Str("B"), Str("A")>>)
    /\ Len(events) = 2

(***************************************************************************)
(* C25: the event of an add.                                               *)
(***************************************************************************)
\* the last call applied one add, with all callbacks given, and the record
\* is not what it was
AddChanged ==
    /\ Applied /\ SingleOp /\ TheDef.op = "add" /\ handlers = "full"
    /\ rec # recBefore

\* C25 as stated: an add that changes the record emits exactly one event,
\* Insert when the target is a collection element (array index, "-" or map
\* key, present or not), Set when it is a whole property
C25_AsStated ==
    AddChanged =>
        /\ Len(events) = 1
        /\ events[1].h = IF TheOp.pathPtr.collectionElement THEN "onInsert"
                         ELSE "onSet"

\* the target is a map key that holds a value when the call starts
KeyPresent ==
    /\ TheOp.pathPtr.collectionElement /\ isMap(TheOp.pathPtr.propDesc)
    /\ Current.value # UNDEF

\* C25 amended: an add that changes the record emits exactly one event:
\* Insert when the target is an array element (index or "-") or a map key
\* that is not in the map yet, Set when it is a whole property or a map key
\* that already holds a value
C25_KeyPresentSets ==
    AddChanged =>
        /\ Len(events) = 1
        /\ events[1].op = "add"
        /\ events[1].h = IF TheOp.pathPtr.collectionElement /\ ~KeyPresent
                         THEN "onInsert" ELSE "onSet"

\* the case of C25: an add on a map key that held another value
C25_Witness == AddChanged /\ KeyPresent /\ events[1].h = "onSet"

\* the other cases: an insert into an array, a new map key, a whole property
C25_OtherTargets ==
    /\ AddChanged /\ ~KeyPresent
    /\ TheDef.path \in {<<"simpleArrayProp", "0">>, <<"simpleArrayProp", "-">>,
                        <<"simpleMapProp", "k2">>, <<"simpleProp">>}

(***************************************************************************)
(* C26: null elements of whole-array and whole-map values.                 *)
(***************************************************************************)
\* the elements of an array or a map value
ElementsOf(val) == {val.v[k] : k \in KeysOf(val)}

\* build was handed one add, replace or test operation that puts a whole
\* array or map, holding a null element, at an array or map property
NullElementCase ==
    /\ Built /\ ~UnknownType /\ ~NotAnArray
    /\ Len(patchSpec) = 1
    /\ patchSpec[1] \in NullElementOps
    /\ NULL \in ElementsOf(patchSpec[1].value)

\* the scalar value type of the elements of the property the operation is at
ElementKind ==
    Containers[RecordTypeName].props[patchSpec[1].path[1]].scalarValueType

\* C26: a whole array or map value with a null element builds for every
\* element kind except nested object, for which build throws a SyntaxError
C26_NullElements ==
    NullElementCase =>
        IF ElementKind = "object" THEN patch.err = "SyntaxError"
        ELSE patch.err = ""

\* the part of C26 that the code keeps: null elements of string arrays and
\* maps build, null elements of nested object arrays and maps do not
C26_StringAndObject ==
    (NullElementCase /\ ElementKind # "number") =>
        IF ElementKind = "object" THEN patch.err = "SyntaxError"
        ELSE patch.err = ""

\* a number array with a null element was handed to build
C26_NumberCase == NullElementCase /\ ElementKind = "number"

\* a number array without a null element builds
C26_NumbersBuild ==
    /\ Built /\ Len(patchSpec) = 1 /\ patchSpec[1] \in NullElementOps
    /\ patchSpec[1].value = Arr(<<Num(1)>>)
    /\ patch.err = ""

(***************************************************************************)
(* C27: the shapes of the source and the destination of move and copy.     *)
(***************************************************************************)
DestPtr == ParsePointer(patchSpec[1].path, FALSE)
SrcPtr == ParsePointer(patchSpec[1].from, TRUE)

\* build was handed one move or copy whose two pointers parse to locations
\* below the top record
FromCase ==
    /\ Built /\ ~UnknownType /\ ~NotAnArray
    /\ Len(patchSpec) = 1
    /\ patchSpec[1].op \in {"move", "copy"}
    /\ DestPtr.err = "" /\ ~isRoot(DestPtr)
    /\ SrcPtr.err = "" /\ ~isRoot(SrcPtr)

\* a whole array property, a whole map property, or a single value (a scalar
\* property or an element of an array or a map)
Shape(ptr) ==
    IF ptr.collectionElement \/ isScalar(ptr.propDesc) THEN "scalar"
    ELSE ptr.propDesc.struct

\* the source is an element of a property of the destination's shape
ElementIntoWhole ==
    /\ SrcPtr.collectionElement
    /\ Shape(DestPtr) = SrcPtr.propDesc.struct

\* C27: build throws a SyntaxError for every move or copy whose source and
\* destination differ in shape (whole array, whole map, scalar or element)
C27_ShapesAgree ==
    (FromCase /\ Shape(DestPtr) # Shape(SrcPtr)) => patch.err = "SyntaxError"

\* the part of C27 that the code keeps: the shapes are told apart except for
\* an element as the source of a whole array or map of its own structure
\* (no patch is built; the error is the RangeError of the involved paths
\* when the destination is a nested object that holds a nested object)
C27_OtherShapes ==
    (FromCase /\ Shape(DestPtr) # Shape(SrcPtr) /\ ~ElementIntoWhole)
        => patch.err \in {"SyntaxError", "RangeError"}

\* an array element copied or moved onto a whole array builds
C27_ElementOntoArray ==
    FromCase /\ ElementIntoWhole /\ Shape(DestPtr) = "array" /\ patch.err = ""

\* a map element copied or moved onto a whole map builds
C27_ElementOntoMap ==
    FromCase /\ ElementIntoWhole /\ Shape(DestPtr) = "map" /\ patch.err = ""

(***************************************************************************)
(* C28: the involved paths of an operation at a nested object.             *)
(***************************************************************************)
\* build was handed one operation whose path parses to a nested object
\* property or to a nested object element of an array or a map
NestedTarget ==
    /\ Built /\ ~UnknownType /\ ~NotAnArray
    /\ Len(patchSpec) = 1
    /\ patchSpec[1].op \in OpNames
    /\ DestPtr.err = "" /\ ~isRoot(DestPtr)
    /\ DestPtr.propDesc.scalarValueType = "object"

\* the nested object at the pointer holds a nested object property
TwoLevelsAt(ptr) ==
    /\ ptr.err = "" /\ ptr.propDesc.scalarValueType = "object"
    /\ \E n \in DOMAIN Containers[ptr.propDesc.nested].props :
          Containers[ptr.propDesc.nested].props[n].scalarValueType = "object"

\* so does the nested object at the target, or the one at the source of a
\* move or a copy
TwoLevels ==
    \/ TwoLevelsAt(DestPtr)
    \/ patchSpec[1].op \in {"move", "copy"} /\ TwoLevelsAt(SrcPtr)

\* the paths of the properties of the nested object at the target that are
\* not nested objects themselves
OwnPaths ==
    {Containers[DestPtr.propDesc.nested].nestedPath \o <<n>> :
        n \in {m \in DOMAIN Containers[DestPtr.propDesc.nested].props :
                 Containers[DestPtr.propDesc.nested].props[m].scalarValueType
                     # "object"}}

\* C28: build ends for an operation at a nested object, also when the nested
\* object holds a nested object: the walk over the nested properties comes
\* back, and a patch that is built has the nested properties among its
\* involved paths
C28_WalkReturns ==
    NestedTarget =>
        /\ ~StackExhausted
        /\ patch.err = "" => OwnPaths \subseteq patch.involvedPropPaths

\* the part of C28 that the code keeps: the walk of a nested object that
\* holds no nested object
C28_OneLevel ==
    (NestedTarget /\ ~TwoLevels) =>
        /\ ~StackExhausted
        /\ patch.err = "" => OwnPaths \subseteq patch.involvedPropPaths

\* an operation at a nested object that holds a nested object was handed to
\* build, and the walk did not come back
C28_TwoLevelsExhaust == NestedTarget /\ TwoLevelsAt(DestPtr) /\ StackExhausted

\* a patch was built for an operation at a nested object of one level
C28_OneLevelBuilt == NestedTarget /\ ~TwoLevels /\ patch.err = ""

(***************************************************************************)
(* C29: the main loops of diffValueArrays and diffObjectArrays.            *)
(***************************************************************************)
ItemsPath == <<"nestedObjArrayProp">>
ItemsDesc == Containers[RecordTypeName].props["nestedObjArrayProp"]

\* the cursors at the head of the main loop of diffValueArrays, pass by
\* pass, for the two simple value arrays handed to fromDiff
RECURSIVE ValueTrace(_)
ValueTrace(s) ==
    IF ~(s.iOld < Len(OldArr) /\ s.iNew < Len(NewArr)) \/ s.left THEN <<s>>
    ELSE <<s>> \o ValueTrace(DiffValueStep(ArrayPath, OldArr, NewArr, s))

\* the same for diffObjectArrays and the two nested object arrays; a pair
\* that throws leaves the loop
RECURSIVE ItemsTrace(_)
ItemsTrace(s) ==
    IF ~(s.iOld < Len(OldItems) /\ s.iNew < Len(NewItems)) \/ s.err # "" \/ s.left
    THEN <<s>>
    ELSE <<s>> \o ItemsTrace(DiffObjectStep(ItemsDesc, ItemsPath, OldItems, NewItems, s))

ValueStart == [iOld |-> 0, iNew |-> 0, t |-> 0, ops |-> <<>>, left |-> FALSE]
ItemsStart ==
    [iOld |-> 0, iNew |-> 0, t |-> 0, err |-> "", why |-> NoWhy, ops |-> <<>>,
     left |-> FALSE]

\* fromDiff was handed two records that both hold a non-empty array at the
\* property: the arrays are aligned
Aligned(name) ==
    /\ DiffDone
    /\ NonEmptyArray(Prop(recOld, name))
    /\ NonEmptyArray(Prop(recNew, name))

\* every pass from a to b advances a cursor or leaves the loop, and no
\* cursor goes back or beyond the length of its array
Progress(tr, lenOld, lenNew, thrown(_)) ==
    \A k \in 1..(Len(tr) - 1) :
        /\ tr[k + 1].left \/ thrown(tr[k + 1])
           \/ tr[k + 1].iOld > tr[k].iOld \/ tr[k + 1].iNew > tr[k].iNew
        /\ tr[k + 1].iOld >= tr[k].iOld /\ tr[k + 1].iOld <= lenOld
        /\ tr[k + 1].iNew >= tr[k].iNew /\ tr[k + 1].iNew <= lenNew

NeverThrown(s) == FALSE
PairThrown(s) == s.err # ""

ValueProgress ==
    LET ok(tr) == Progress(tr, Len(OldArr), Len(NewArr), NeverThrown)
    IN ok(ValueTrace(ValueStart))

ItemsProgress ==
    LET ok(tr) == Progress(tr, Len(OldItems), Len(NewItems), PairThrown)
    IN ok(ItemsTrace(ItemsStart))

ValueOpsEmitted == diffValueArrays(ArrayPath, OldArr, NewArr)
ItemsOpsEmitted == diffObjectArrays(ItemsDesc, ItemsPath, OldItems, NewItems).ops

\* the operations at the elements of the array themselves, not at the
\* properties of an element
AtElements(ops) == {k \in 1..Len(ops) : Len(ops[k].path) = Len(ItemsPath) + 1}

\* C29 as stated: both main loops advance a cursor or leave in every pass,
\* keep the cursors from going back or beyond the lengths, and each
\* function emits lenOld + lenNew operations at most
C29_AsStated ==
    /\ Aligned("simpleArrayProp") =>
         /\ ValueProgress
         /\ Len(ValueOpsEmitted) <= Len(OldArr) + Len(NewArr)
    /\ Aligned("nestedObjArrayProp") =>
         /\ ItemsProgress
         /\ Len(ItemsOpsEmitted) <= Len(OldItems) + Len(NewItems)

\* C29 with the count that the code keeps: diffObjectArrays emits
\* lenOld + lenNew operations at most at the elements of the array; those
\* that diffObjects emits for the properties of the paired elements come on
\* top
C29_Alignment ==
    /\ Aligned("simpleArrayProp") =>
         /\ ValueProgress
         /\ Len(ValueOpsEmitted) <= Len(OldArr) + Len(NewArr)
    /\ Aligned("nestedObjArrayProp") =>
         /\ ItemsProgress
         /\ Cardinality(AtElements(ItemsOpsEmitted)) <= Len(OldItems) + Len(NewItems)

\* both arrays were aligned, the value arrays in two passes and more, and the
\* paired elements of the object arrays differ in more properties than the
\* two arrays have elements
C29_Witness ==
    /\ Aligned("simpleArrayProp") /\ Aligned("nestedObjArrayProp")
    /\ Len(ValueTrace(ValueStart)) >= 3
    /\ Len(ItemsTrace(ItemsStart)) >= 2
    /\ Len(ItemsOpsEmitted) > Len(OldItems) + Len(NewItems)

\* a main loop was left by break after a pass that advanced
C29_Break ==
    \/ /\ Aligned("simpleArrayProp")
       /\ Len(ValueTrace(ValueStart)) >= 3
       /\ ValueTrace(ValueStart)[Len(ValueTrace(ValueStart))].left
    \/ /\ Aligned("nestedObjArrayProp")
       /\ Len(ItemsTrace(ItemsStart)) >= 3
       /\ ItemsTrace(ItemsStart)[Len(ItemsTrace(ItemsStart))].left

(***************************************************************************)
(* C30: the source of a copy after the copy.                               *)
(***************************************************************************)
\* the value at the source of the copy in a record
SourceIn(record) == getValue(SrcPtr, record).value

\* the last apply call ran a patch that is a copy of an array, a map or a
\* nested object
CopiedObject ==
    /\ Applied /\ result = "true"
    /\ Len(patchSpec) >= 1
    /\ patchSpec[1].op = "copy"
    /\ IsObjectLike(SourceIn(recBefore))

\* the copy is followed by one operation below the destination of the copy
CopyThenWrite ==
    /\ CopiedObject
    /\ Len(patchSpec) = 2
    /\ patchSpec[2].op \in {"add", "replace", "remove"}
    /\ IsPrefix(PlaceOf(DestPtr, recBefore),
                ParsePointer(patchSpec[2].path, FALSE).steps)

\* the destination takes the place of the source, or of what the source is
\* in: the destination is the source or above it, or an element inserted into
\* the array of the source
OntoSource ==
    \/ IsPrefix(patchSpec[1].path, patchSpec[1].from)
    \/ /\ Len(patchSpec[1].path) = Len(patchSpec[1].from)
       /\ SubSeq(patchSpec[1].path, 1, Len(patchSpec[1].path) - 1)
            = SubSeq(patchSpec[1].from, 1, Len(patchSpec[1].from) - 1)
       /\ isArray(SrcPtr.propDesc) /\ SrcPtr.collectionElement

\* the copy is the whole patch, and its destination is apart from the source
CopyAlone == CopiedObject /\ Len(patchSpec) = 1 /\ ~OntoSource

C30_CopyAlone == CopyAlone => SourceIn(rec) = SourceIn(recBefore)

\* an operation below the destination of a copy has changed the source
C30_SourceChanged == CopyThenWrite /\ SourceIn(rec) # SourceIn(recBefore)

\* the removal of the destination itself leaves the source as it was
C30_DestinationRemoved ==
    /\ CopyThenWrite
    /\ patchSpec[2].op = "remove" /\ patchSpec[2].path = patchSpec[1].path
    /\ SourceIn(rec) = SourceIn(recBefore)

\* a copy of a nested object was applied on its own
C30_Copied == CopyAlone /\ patchSpec[1].path # patchSpec[1].from
=============================================================================
